---- MODULE Spec2Model ----
(***************************************************************************)
(* Model of the link-discovery crawler robust_crawl                        *)
(* (Backend/crawler/python_web_crawler_products.py).                       *)
(*                                                                         *)
(* A URL string is a record of token sequences: scheme, netloc, path,      *)
(* query, fragment.  A token stands for a run of characters ("/", "page",  *)
(* ".pdf", "utm_", "=", "&", ...), so that prefix and suffix tests of the  *)
(* code are tests on the first and last token.                             *)
(***************************************************************************)
EXTENDS Integers, Sequences, FiniteSets, TLC

\* None, and the empty string: every falsy URL value of the code
None == [scheme |-> "None", netloc |-> "", path |-> <<>>, query |-> <<>>,
         fragment |-> <<>>]

\* fetch_plain and the renderer return None for "no content"
NoHtml == "none"

----------------------------------------------------------------------------
(* Strings                                                                 *)

\* str.lower() on one token
Lower(t) ==
    CASE t = "H" -> "h"
      [] t = "HTTP" -> "http"
      [] t = ".PDF" -> ".pdf"
      [] t = "UTM_" -> "utm_"
      [] t = "GCLID" -> "gclid"
      [] t = "Courses" -> "courses"
      [] t = "Shop" -> "shop"
      [] t = "About" -> "about"
      [] t = "Partner" -> "partner"
      [] OTHER -> t

\* urllib.parse.unquote / unquote_plus on one token of a query component
Unquote(t) ==
    CASE t = "%26" -> "&"
      [] t = "%3D" -> "="
      [] t = "%23" -> "#"
      [] t = "+" -> " "
      [] OTHER -> t

UnquoteSeq(s) == [i \in 1..Len(s) |-> Unquote(s[i])]

\* index of the first occurrence of token t in s, 0 if none
RECURSIVE IndexFrom(_, _, _)
IndexFrom(s, t, i) ==
    IF i > Len(s) THEN 0
    ELSE IF s[i] = t THEN i
    ELSE IndexFrom(s, t, i + 1)

IndexOf(s, t) == IndexFrom(s, t, 1)

\* str.split(sep): the pieces of s between occurrences of token sep
RECURSIVE Split(_, _)
Split(s, sep) ==
    LET i == IndexOf(s, sep)
    IN  IF i = 0 THEN <<s>>
        ELSE <<SubSeq(s, 1, i - 1)>> \o Split(SubSeq(s, i + 1, Len(s)), sep)

\* str.rstrip('/'): every trailing "/" is removed
RStripSlashNever(p) == p
RECURSIVE RStripSlash(_)
RStripSlash(p) ==
    IF p # <<>> /\ p[Len(p)] = "/" THEN RStripSlash(SubSeq(p, 1, Len(p) - 1))
    ELSE p

----------------------------------------------------------------------------
(* URLs                                                                    *)

Url(scheme, netloc, path, query, fragment) ==
    [scheme |-> scheme, netloc |-> netloc, path |-> path, query |-> query,
     fragment |-> fragment]

\* an absolute http URL and a host-relative reference, as they are written
Abs(netloc, path, query) == Url("http", netloc, path, query, <<>>)
Rel(path, query) == Url("", "", path, query, <<>>)

\* urljoin(base, u) for absolute URLs and for references that start with "/"
urljoin(base, u) ==
    IF u.scheme # "" \/ u.netloc # "" THEN u
    ELSE [u EXCEPT !.scheme = base.scheme, !.netloc = base.netloc]

\* u.split('#', 1)[0] followed by urlparse: the text is cut at its first '#',
\* which is the fragment separator or a literal '#' inside the query
StripFragment(u) ==
    LET i == IndexOf(u.query, "#")
    IN  [u EXCEPT !.fragment = <<>>,
                  !.query = IF i = 0 THEN @ ELSE SubSeq(@, 1, i - 1)]

\* one name=value piece of parse_qsl(..., keep_blank_values=True)
ParsePair(piece) ==
    LET i == IndexOf(piece, "=")
    IN  IF i = 0 THEN <<UnquoteSeq(piece), <<>>>>
        ELSE <<UnquoteSeq(SubSeq(piece, 1, i - 1)),
               UnquoteSeq(SubSeq(piece, i + 1, Len(piece)))>>

\* parse_qsl(query, keep_blank_values=True): empty pieces are skipped
parse_qsl(query) ==
    LET pieces == SelectSeq(Split(query, "&"), LAMBDA p : p # <<>>)
    IN  [i \in 1..Len(pieces) |-> ParsePair(pieces[i])]

TRACKING_KEYS == {"fbclid", "gclid", "icid"}

\* k.lower().startswith('utm_') or k.lower() in ('fbclid', 'gclid', 'icid')
IsTrackingNever(k) == FALSE
IsTracking(k) ==
    \/ (k # <<>> /\ Lower(k[1]) = "utm_")
    \/ (Len(k) = 1 /\ Lower(k[1]) \in TRACKING_KEYS)

\* '&'.join(f'{k}={v}' for k, v in pairs)
RECURSIVE JoinQuery(_)
JoinQuery(pairs) ==
    IF pairs = <<>> THEN <<>>
    ELSE LET kv == pairs[1][1] \o <<"=">> \o pairs[1][2]
         IN  IF Len(pairs) = 1 THEN kv
             ELSE kv \o <<"&">> \o JoinQuery(Tail(pairs))

normalize_url(u, base) ==
    IF u = None THEN None
    ELSE LET j == IF base # None THEN urljoin(base, u) ELSE u
             parsed == StripFragment(j)
             scheme == Lower(IF parsed.scheme = "" THEN "http" ELSE parsed.scheme)
             netloc == Lower(parsed.netloc)
             path0 == IF parsed.path = <<>> THEN <<"/">> ELSE parsed.path
             path == IF path0 # <<"/">> /\ path0[Len(path0)] = "/"
                     THEN RStripSlash(path0) ELSE path0
             qs_items == parse_qsl(parsed.query)
             qs_filtered == SelectSeq(qs_items, LAMBDA kv : ~IsTracking(kv[1]))
             query == JoinQuery(qs_filtered)
         IN  IF netloc = "" THEN None
             ELSE Url(scheme, netloc, path, query, <<>>)

\* the text of a normalized URL, as urlunparse writes it
UrlString(u) ==
    <<u.scheme, "://", u.netloc>> \o u.path
        \o (IF u.query # <<>> THEN <<"?">> \o u.query ELSE <<>>)

EXTENSION_SKIP == {".jpg", ".jpeg", ".png", ".gif", ".svg", ".pdf", ".zip",
                   ".rar", ".exe", ".tar", ".gz", ".woff", ".woff2"}

\* any(l.lower().endswith(ext) for ext in EXTENSION_SKIP)
EndsWithSkipExt(u) ==
    LET s == UrlString(u) IN Lower(s[Len(s)]) \in EXTENSION_SKIP

----------------------------------------------------------------------------
(* Ordering of URL strings, for sorted(initial_urls)                       *)

\* rank of a token in the order of Python's string comparison
TokRank(t) ==
    CASE t = "#" -> 1 [] t = "&" -> 2 [] t = ".PDF" -> 3
      [] t = ".pdf" -> 4 [] t = ".png" -> 5 [] t = "/" -> 6 [] t = "://" -> 7
      [] t = "=" -> 8 [] t = "?" -> 9 [] t = "H" -> 10 [] t = "a" -> 11
      [] t = "b" -> 12 [] t = "doc" -> 13 [] t = "h" -> 14 [] t = "http" -> 15
      [] t = "img" -> 16 [] t = "other" -> 17 [] t = "page" -> 18
      [] t = "private" -> 19 [] t = "utm_" -> 20 [] t = "v" -> 21
      [] t = "x" -> 22 [] OTHER -> 23

RECURSIVE SeqLess(_, _)
SeqLess(s, t) ==
    IF s = <<>> THEN t # <<>>
    ELSE IF t = <<>> THEN FALSE
    ELSE IF s[1] = t[1] THEN SeqLess(Tail(s), Tail(t))
    ELSE TokRank(s[1]) < TokRank(t[1])

UrlLess(u, v) == SeqLess(UrlString(u), UrlString(v))

\* sorted(S)
RECURSIVE Sorted(_)
Sorted(S) ==
    IF S = {} THEN <<>>
    ELSE LET m == CHOOSE x \in S : \A y \in S \ {x} : UrlLess(x, y)
         IN  <<m>> \o Sorted(S \ {m})

\* the orders in which a Python set of strings may be iterated
RECURSIVE Orders(_)
Orders(S) ==
    IF S = {} THEN {<<>>}
    ELSE UNION {{<<x>> \o o : o \in Orders(S \ {x})} : x \in S}

----------------------------------------------------------------------------
(* The crawled site and the run's environment                              *)

MaxWorkers == 2
MaxPages == 4

SeedHost == "h"
P_root    == <<"/">>
P_b       == <<"/", "b">>
P_page    == <<"/", "page">>
P_private == <<"/", "private">>
P_doc     == <<"/", "doc", ".pdf">>
Q_utm     == <<"utm_", "campaign", "=", "x">>
Q_v       == <<"v", "=", "1">>

U_root    == Abs(SeedHost, P_root, <<>>)
U_b       == Abs(SeedHost, P_b, <<>>)
U_page    == Abs(SeedHost, P_page, <<>>)
U_private == Abs(SeedHost, P_private, <<>>)
U_doc     == Abs(SeedHost, P_doc, <<>>)
U_docq    == Abs(SeedHost, P_doc, Q_v)
U_other   == Abs("other", <<"/", "x">>, <<>>)

\* the values of --start-url
StartUrls == {U_root, U_private, Abs("H", P_root, <<>>)}

\* the hrefs (as written in the page) that the HTML of a page carries:
\* the start page links to /page?utm_campaign=x, to /b/ and off-domain,
\* /b links to /page, to /#top and to two documents
PageHrefs(u) ==
    CASE u = U_root -> {Rel(P_page, Q_utm), Rel(P_b \o <<"/">>, <<>>), U_other}
      [] u = U_b    -> {Rel(P_page, <<>>), Url("", "", P_root, <<>>, <<"top">>),
                        Rel(P_doc, <<>>), Rel(P_doc, Q_v)}
      [] OTHER      -> {}

\* the raw candidate strings the renderer harvests from the DOM and scripts
RenderCandidates(u) ==
    CASE u = U_root -> {Rel(P_b, <<>>), Rel(<<"/", "img", ".png">>, <<>>)}
      [] u = U_b    -> {Rel(<<"/", "doc", ".PDF">>, <<>>)}
      [] OTHER      -> {}

\* the URLs of the site, and the one off-domain URL it links to
SiteUrls == {U_root, U_b, U_page, U_private, U_doc, U_docq, U_other}

\* what a plain GET of a URL may return: nothing, a body under 600
\* characters, a longer body
PlainBodies == {NoHtml, "short", "long"}

\* the robots.txt policy of the site: the path prefixes it disallows
Policies == {{P_private}}
NoPolicy == {<<"no robots.txt">>}

\* what seeding from sitemaps finds: a sitemap at a common location and the
\* URLs it lists, or none, and then the start page is fetched for sitemap links
SeedCases == {[found |-> TRUE, urls |-> {U_page, U_other}],
              [found |-> FALSE, urls |-> {}]}
NoSitemaps == [found |-> TRUE, urls |-> {}]

----------------------------------------------------------------------------
(* State of one run of robust_crawl                                        *)

VARIABLES
    cfg,             \* the arguments of robust_crawl
    phase,           \* position of robust_crawl itself
    rp,              \* the robots policy, NoPolicy when rp is None
    q,               \* the frontier (deque)
    discovered,      \* set of URLs ever put in the frontier
    visited,         \* set of processed or skipped URLs
    results,         \* list of PageResult
    use_pw,          \* rendering enabled
    shared_browser,  \* "none", "open", "closed"
    render_locked,   \* render_lock is held
    render_waiters,  \* workers queued on render_lock, in arrival order
    pc,              \* where each worker is suspended
    cur,             \* the URL each worker is processing
    html,            \* the plain body each worker got for it
    pw_path,         \* the exit path of each worker's render call
    pw_result,       \* the content its render call returned
    pages_open,      \* number of browser pages that are open
    plain_fetched,   \* how often fetch_plain was issued per URL by workers
    render_fetched,  \* how often fetch_with_playwright was issued per URL
    seed_fetched,    \* URLs fetch_plain was issued for while seeding
    output           \* the output document

\* State of the check of normalize_url on its own: a URL as written, the
\* result of normalize_url for it, and the result for that result's text;
\* for the normalize_url of python_web_crawler_products.py and of ai_crawler.py
VARIABLES
    norm_pc,         \* "off", "input", "once", "twice"
    norm_in,         \* the URL given to normalize_url
    norm_out,        \* normalize_url(norm_in)
    norm_again,      \* normalize_url(norm_out)
    ai_out,          \* ai_crawler.normalize_url(norm_in)
    ai_again         \* ai_crawler.normalize_url(ai_out)

robustVars == <<cfg, phase, rp, q, discovered, visited, results, use_pw,
                shared_browser, render_locked, render_waiters, pc, cur, html,
                pw_path, pw_result, pages_open, plain_fetched, render_fetched,
                seed_fetched, output>>

normVars == <<norm_pc, norm_in, norm_out, norm_again, ai_out, ai_again>>

\* State of one run of keyword_crawler.py: a KeywordCrawler, its Robots
\* wrapper and the futures of its thread pool
VARIABLES
    kw_pc,           \* position of the main thread
    kw_cfg,          \* the arguments of KeywordCrawler
    robots,          \* self.robots
    kw_delay,        \* self.delay, in tenths of a second
    to_visit,        \* self.to_visit
    kw_visited,      \* self.visited
    found_links,     \* self.found_links: url -> page it was found on
    futures,         \* submitted process_page calls, by URL
    kw_fetched,      \* URLs self.session.get was issued for
    kw_pause,        \* the last time.sleep of run: num / den tenths of a second
    kw_saved,        \* the links written by save_results
    kw_url           \* url of run, between popleft and the locked section

keywordVars == <<kw_pc, kw_cfg, robots, kw_delay, to_visit, kw_visited,
                 found_links, futures, kw_fetched, kw_pause, kw_saved,
                 kw_url>>

\* State of one run of product_crawler.py (crawl_from_sitemaps)
VARIABLES
    pr_pc,           \* position of crawl_from_sitemaps
    pr_cfg,          \* its arguments
    sitemap_docs,    \* what each sitemap URL serves during the run
    all_urls,        \* all_urls
    pr_robots,       \* robots
    pr_q,            \* q
    pr_visited,      \* visited
    pr_discovered,   \* discovered
    items,           \* the URLs of items
    pr_wpc,          \* position of each worker
    pr_cur,          \* url of each worker
    pr_html,         \* html of each worker
    pr_fetched,      \* URLs fetch_plain was called for
    pr_out           \* the JSON written to output

productVars == <<pr_pc, pr_cfg, sitemap_docs, all_urls, pr_robots, pr_q,
                 pr_visited, pr_discovered, items, pr_wpc, pr_cur, pr_html,
                 pr_fetched, pr_out>>

\* State of one run of crawl of ai_crawler.py
VARIABLES
    ai_pc,           \* position of crawl
    ai_cfg,          \* its arguments
    ai_q,            \* q
    ai_visited,      \* visited
    ai_discovered,   \* discovered
    ai_results,      \* results
    ai_wpc,          \* position of each worker
    ai_cur           \* url of each worker

aiVars == <<ai_pc, ai_cfg, ai_q, ai_visited, ai_discovered, ai_results,
            ai_wpc, ai_cur>>

\* State of the scroll loop of one call of fetch_with_playwright
VARIABLES
    sc_pc,           \* position in fetch_with_playwright
    sc_page,         \* the page: its viewport, its height, its growth
    viewport_h,      \* viewport_h
    total_h,         \* total_h
    scrolled         \* scrolled (scroll_y in ai_crawler.py)

scrollVars == <<sc_pc, sc_page, viewport_h, total_h, scrolled>>

\* State of crawl_linkedin_by_company and of the post loop of the scraper
VARIABLES
    li_pc,             \* position in crawl_linkedin_by_company
    scraped_items,     \* the uids of the items the loop has not reached
    db_posts,          \* the SocialMediaPost rows of the session
    db_alerts,         \* the Alert rows of the session
    sentiment_result,  \* sentiment_result
    alert_result,      \* alert_result
    alert_failed,      \* history: uids whose alert-scoring call failed
    committed,         \* the rows that are committed to the database
    li_log,            \* status of the CrawlerLog row of the run
    li_http,           \* status code of the answer, 0 before there is one
    lc_results         \* post_sentiment of the posts of linkedin_crawler.py

linkedinVars ==
    <<li_pc, scraped_items, db_posts, db_alerts, sentiment_result,
      alert_result, alert_failed, committed, li_log, li_http, lc_results>>

\* State of one top-level call of fetch_sitemap_urls or of parse_sitemap,
\* with its call stack
VARIABLES
    sx_pc,           \* "call", "loop", "ret", or "returned"
    sx_fn,           \* the function that is called
    sx_docs,         \* what each sitemap URL serves
    sx_stack,        \* the frames: url, the child locations to come, urls
    sx_arg,          \* sitemap_url of the call that is entered
    sx_ret,          \* the list the last call returned
    sx_seen,         \* seen of parse_sitemap
    sx_downloads     \* history: the URLs given to requests.get, in order

sitemapVars ==
    <<sx_pc, sx_fn, sx_docs, sx_stack, sx_arg, sx_ret, sx_seen, sx_downloads>>

\* the state of the other programs, which a run of robust_crawl leaves alone
others == <<normVars, keywordVars, productVars, aiVars, scrollVars,
            linkedinVars, sitemapVars>>

\* what a run of keyword_crawler.py leaves alone
notKeyword == <<robustVars, normVars, productVars, aiVars, scrollVars,
                linkedinVars, sitemapVars>>

\* what a call of normalize_url leaves alone
notNorm == <<robustVars, keywordVars, productVars, aiVars, scrollVars,
             linkedinVars, sitemapVars>>

\* what a run of product_crawler.py leaves alone
notProduct == <<robustVars, normVars, keywordVars, aiVars, scrollVars,
                linkedinVars, sitemapVars>>

\* what a run of crawl of ai_crawler.py leaves alone
notAi == <<robustVars, normVars, keywordVars, productVars, scrollVars,
           linkedinVars, sitemapVars>>

\* what the scroll loop leaves alone
notScroll == <<robustVars, normVars, keywordVars, productVars, aiVars,
               linkedinVars, sitemapVars>>

\* what the LinkedIn crawl leaves alone
notLinkedin == <<robustVars, normVars, keywordVars, productVars, aiVars,
                 scrollVars, sitemapVars>>

\* what the expansion of sitemaps leaves alone
notSitemap == <<robustVars, normVars, keywordVars, productVars, aiVars,
                scrollVars, linkedinVars>>

vars == <<robustVars, others>>

\* normalize_url is not called
NormOff ==
    /\ norm_pc = "off"
    /\ norm_in = None
    /\ norm_out = None
    /\ norm_again = None
    /\ ai_out = None
    /\ ai_again = None

\* no time.sleep was called yet
NoPause == [num |-> 0, den |-> 1]

\* keyword_crawler.py is not run
KeywordOff ==
    /\ kw_pc = "off"
    /\ kw_cfg = [max_pages |-> 1, delay |-> 0, concurrency |-> 1]
    /\ robots = [read |-> "off"]
    /\ kw_delay = 0
    /\ to_visit = <<>>
    /\ kw_visited = {}
    /\ found_links = {}
    /\ futures = <<>>
    /\ kw_fetched = {}
    /\ kw_pause = NoPause
    /\ kw_saved = {}
    /\ kw_url = None

Workers == 1..MaxWorkers

\* nothing was written to the output of product_crawler.py
NoProducts == [items_found |-> <<>>, visited_count |-> -1]

\* product_crawler.py is not run
ProductOff ==
    /\ pr_pc = "off"
    /\ pr_cfg = [sitemaps |-> <<>>, max_pages |-> 1, concurrency |-> 1,
                 ignore_robots |-> TRUE]
    /\ sitemap_docs = <<>>
    /\ all_urls = <<>>
    /\ pr_robots = [read |-> "off"]
    /\ pr_q = <<>>
    /\ pr_visited = {}
    /\ pr_discovered = {}
    /\ items = <<>>
    /\ pr_wpc = [w \in Workers |-> "absent"]
    /\ pr_cur = [w \in Workers |-> None]
    /\ pr_html = [w \in Workers |-> NoHtml]
    /\ pr_fetched = {}
    /\ pr_out = NoProducts

\* crawl of ai_crawler.py is not run
AiOff ==
    /\ ai_pc = "off"
    /\ ai_cfg = [max_pages |-> 1, concurrency |-> 1, no_playwright |-> TRUE]
    /\ ai_q = <<>>
    /\ ai_visited = {}
    /\ ai_discovered = {}
    /\ ai_results = <<>>
    /\ ai_wpc = [w \in Workers |-> "absent"]
    /\ ai_cur = [w \in Workers |-> None]

\* fetch_with_playwright is not called on its own
ScrollOff ==
    /\ sc_pc = "off"
    /\ sc_page = [viewport |-> 0, height |-> 0, grow |-> 0]
    /\ viewport_h = 0
    /\ total_h = 0
    /\ scrolled = 0

\* crawl_linkedin_by_company is not called
LinkedinOff ==
    /\ li_pc = "off"
    /\ scraped_items = <<>>
    /\ db_posts = {}
    /\ db_alerts = {}
    /\ sentiment_result = [label |-> "", score |-> 0]
    /\ alert_result = [message |-> "", severity |-> ""]
    /\ alert_failed = {}
    /\ committed = [posts |-> {}, alerts |-> {}]
    /\ li_log = ""
    /\ li_http = 0
    /\ lc_results = <<>>

\* no sitemap is expanded step by step
SitemapOff ==
    /\ sx_pc = "off"
    /\ sx_fn = ""
    /\ sx_docs = <<>>
    /\ sx_stack = <<>>
    /\ sx_arg = ""
    /\ sx_ret = <<>>
    /\ sx_seen = {}
    /\ sx_downloads = <<>>

OthersOff == NormOff /\ KeywordOff /\ ProductOff /\ AiOff /\ ScrollOff /\ LinkedinOff /\ SitemapOff

\* the tasks spawned by the run: range(concurrency)
Tasks == 1..cfg.concurrency

Count(b, u) == IF u \in DOMAIN b THEN b[u] ELSE 0
Inc(b, u) == [x \in DOMAIN b \cup {u} |-> Count(b, x) + (IF x = u THEN 1 ELSE 0)]
NoCounts == [x \in {} |-> 0]

base_host == cfg.start_url.netloc

IsPrefix(d, p) == Len(d) <= Len(p) /\ SubSeq(p, 1, Len(d)) = d

\* rp.can_fetch(USER_AGENT, url)
can_fetch(policy, u) == ~(\E d \in policy : IsPrefix(d, u.path))

\* no output document is written yet
NoOutput == [results |-> <<>>, visited_count |-> -1, discovered_count |-> -1]

Init ==
    /\ cfg \in [start_url : StartUrls, max_pages : {1, 2, MaxPages},
                concurrency : 1..MaxWorkers, ignore_robots : BOOLEAN,
                use_sitemaps : BOOLEAN, no_playwright : BOOLEAN]
    /\ phase = "robots"
    /\ rp = NoPolicy
    /\ q = <<>>
    /\ discovered = {}
    /\ visited = {}
    /\ results = <<>>
    /\ use_pw = FALSE
    /\ shared_browser = "none"
    /\ render_locked = FALSE
    /\ render_waiters = <<>>
    /\ pc = [w \in Workers |-> "absent"]
    /\ cur = [w \in Workers |-> None]
    /\ html = [w \in Workers |-> NoHtml]
    /\ pw_path = [w \in Workers |-> "none"]
    /\ pw_result = [w \in Workers |-> "no call"]
    /\ pages_open = 0
    /\ plain_fetched = NoCounts
    /\ render_fetched = NoCounts
    /\ seed_fetched = {}
    /\ output = NoOutput
    /\ OthersOff

crawlVars == <<q, discovered, visited, results>>
workerVars == <<pc, cur, html, pw_path, pw_result, pages_open>>
lockVars == <<render_locked, render_waiters>>
logVars == <<plain_fetched, render_fetched>>

\* rp.read(): the policy is loaded, or rp becomes None
LoadRobots ==
    /\ phase = "robots"
    /\ \E p \in Policies \cup {NoPolicy} : rp' = p
    /\ phase' = "seed"
    /\ UNCHANGED <<cfg, others, crawlVars, use_pw, shared_browser, lockVars,
                   workerVars, logVars, seed_fetched, output>>

\* initial_urls, q and discovered; with use_sitemaps the start page is
\* fetched for sitemap links when no sitemap is served at a common location
Seed ==
    /\ phase = "seed"
    /\ \E c \in (IF cfg.use_sitemaps THEN SeedCases ELSE {NoSitemaps}) :
         LET initial_urls ==
                 {normalize_url(cfg.start_url, None)} \cup
                 ({normalize_url(u, None) : u \in c.urls} \ {None})
         IN  /\ seed_fetched' = IF c.found THEN {} ELSE {cfg.start_url}
             /\ q' = Sorted(initial_urls)
             /\ discovered' = initial_urls
    /\ phase' = "start_pw"
    /\ UNCHANGED <<cfg, others, rp, visited, results, use_pw, shared_browser,
                   lockVars, workerVars, logVars, output>>

\* use_pw, start_playwright and the fallback to requests-only; then the
\* worker tasks are created
StartPlaywright ==
    /\ phase = "start_pw"
    /\ \E installed \in BOOLEAN, started \in BOOLEAN :
         /\ cfg.no_playwright => (installed /\ started)
         /\ ~installed => started
         /\ use_pw' = (~cfg.no_playwright /\ installed /\ started)
         /\ shared_browser' = IF use_pw' THEN "open" ELSE "none"
    /\ pc' = [w \in Workers |-> IF w \in Tasks THEN "ready" ELSE "absent"]
    /\ phase' = "crawl"
    /\ UNCHANGED <<cfg, others, rp, crawlVars, lockVars, cur, html, pw_path,
                   pw_result, pages_open, logVars, seed_fetched, output>>

----------------------------------------------------------------------------
(* The worker coroutine.  A step runs a task from the await it is          *)
(* suspended in to its next await, as the event loop does.                 *)

\* urlparse(url).netloc != base_host
OffDomainNever(u) == FALSE
OffDomain(u) == u.netloc # base_host

\* rp and not ignore_robots and not rp.can_fetch(USER_AGENT, url)
RobotsBlocked(u) ==
    rp # NoPolicy /\ ~cfg.ignore_robots /\ ~can_fetch(rp, u)

\* q and len(visited) < max_pages
LoopConditionEarlyExit(qq, vis) ==
    qq # <<>> /\ Cardinality(vis) + 1 < cfg.max_pages
LoopCondition(qq, vis) == qq # <<>> /\ Cardinality(vis) < cfg.max_pages

\* the head of the worker's while loop, up to the URL it starts to fetch:
\* the skips "continue" without awaiting, so they belong to the same step
RECURSIVE LoopHeadFromRight(_, _)
LoopHeadFromRight(qq, vis) ==
    IF ~LoopCondition(qq, vis)
    THEN [q |-> qq, visited |-> vis, url |-> None]
    ELSE LET url == qq[Len(qq)]
             rest == SubSeq(qq, 1, Len(qq) - 1)
         IN  IF url = None THEN LoopHeadFromRight(rest, vis)
             ELSE IF url \in vis THEN LoopHeadFromRight(rest, vis)
             ELSE IF OffDomain(url) THEN LoopHeadFromRight(rest, vis \cup {url})
             ELSE IF RobotsBlocked(url)
             THEN LoopHeadFromRight(rest, vis \cup {url})
             ELSE [q |-> rest, visited |-> vis, url |-> url]

RECURSIVE LoopHead(_, _)
LoopHead(qq, vis) ==
    IF ~LoopCondition(qq, vis)
    THEN [q |-> qq, visited |-> vis, url |-> None]
    ELSE LET url == Head(qq)
             rest == Tail(qq)
         IN  IF url = None THEN LoopHead(rest, vis)
             ELSE IF url \in vis THEN LoopHead(rest, vis)
             ELSE IF OffDomain(url) THEN LoopHead(rest, vis \cup {url})
             ELSE IF RobotsBlocked(url) THEN LoopHead(rest, vis \cup {url})
             ELSE [q |-> rest, visited |-> vis, url |-> url]

\* extract_links_from_html(base_url, html)
extract_links_from_html(base_url, h) ==
    LET found == {normalize_url(href, base_url) : href \in PageHrefs(base_url)}
                     \ {None}
    IN  {u \in found : /\ Lower(u.scheme) \notin {"mailto", "tel"}
                       /\ ~EndsWithSkipExt(u)}

\* the links of each page of the site: what extract_links_from_html returns
\* for its HTML, and the normalized raw candidates of the renderer
PageLinks == [u \in SiteUrls |-> extract_links_from_html(u, "long")]
CandidateLinks ==
    [u \in SiteUrls |->
        {normalize_url(raw, u) : raw \in RenderCandidates(u)} \ {None}]

LinksOf(u, h, rendered) ==
    IF u \in SiteUrls
    THEN PageLinks[u] \cup (IF rendered THEN CandidateLinks[u] ELSE {})
    ELSE extract_links_from_html(u, h) \cup
         (IF rendered
          THEN {normalize_url(raw, u) : raw \in RenderCandidates(u)} \ {None}
          ELSE {})

\* l not in discovered
NotDiscoveredAlways(l) == TRUE
NotDiscovered(l) == l \notin discovered

\* urlparse(l).netloc == base_host
SameHostAlways(l) == TRUE
SameHost(l) == l.netloc = base_host

\* the links of a page that the worker pushes to the frontier
Enqueueable(links) ==
    {l \in links : /\ l # None
                   /\ ~EndsWithSkipExt(l)
                   /\ SameHost(l)
                   /\ NotDiscovered(l)}

\* "if not html" is false: there is content to extract
HasContentAlways(h) == TRUE
HasContent(h) == h # NoHtml

ProcessNoSleepWithoutContent(w, h, rendered, used_playwright) ==
    /\ visited' = visited \cup {cur[w]}
    /\ IF ~HasContent(h)
       THEN /\ pc' = [pc EXCEPT ![w] = "ready"]
            /\ UNCHANGED <<q, discovered, results>>
       ELSE /\ results' = Append(results,
                   [url |-> cur[w],
                    content |-> h,
                    rendered_with_playwright |-> used_playwright,
                    links |-> LinksOf(cur[w], h, rendered)])
            /\ discovered' =
                   discovered \cup Enqueueable(LinksOf(cur[w], h, rendered))
            /\ \E order \in Orders(Enqueueable(LinksOf(cur[w], h, rendered))) :
                   q' = q \o order
            /\ pc' = [pc EXCEPT ![w] = "sleep"]
    /\ cur' = [cur EXCEPT ![w] = None]

\* from visited.add(url) to the politeness sleep; h is the content,
\* rendered tells that the raw candidates of the renderer are merged
Process(w, h, rendered, used_playwright) ==
    /\ visited' = visited \cup {cur[w]}
    /\ IF ~HasContent(h)
       THEN UNCHANGED <<q, discovered, results>>
       ELSE /\ results' = Append(results,
                   [url |-> cur[w],
                    content |-> h,
                    rendered_with_playwright |-> used_playwright,
                    links |-> LinksOf(cur[w], h, rendered)])
            /\ discovered' =
                   discovered \cup Enqueueable(LinksOf(cur[w], h, rendered))
            /\ \E order \in Orders(Enqueueable(LinksOf(cur[w], h, rendered))) :
                   q' = q \o order
    /\ pc' = [pc EXCEPT ![w] = "sleep"]
    /\ cur' = [cur EXCEPT ![w] = None]

\* The tasks first run in the order of their creation, each to its first
\* await, before the completion of any fetch is delivered.
MayRun(w) ==
    IF pc[w] = "ready" THEN \A v \in Tasks : v < w => pc[v] # "ready"
    ELSE \A v \in Tasks : pc[v] # "ready"

\* loop head: the worker finishes, or dequeues a URL and issues fetch_plain;
\* html, raw_js_candidates and used_playwright of the previous iteration are
\* dead and are assigned anew before they are read
Dequeue(w) ==
    /\ phase = "crawl"
    /\ pc[w] \in {"ready", "sleep"}
    /\ MayRun(w)
    /\ LET r == LoopHead(q, visited)
       IN  /\ q' = r.q
           /\ visited' = r.visited
           /\ cur' = [cur EXCEPT ![w] = r.url]
           /\ IF r.url = None
              THEN /\ pc' = [pc EXCEPT ![w] = "done"]
                   /\ UNCHANGED plain_fetched
              ELSE /\ pc' = [pc EXCEPT ![w] = "fetch"]
                   /\ plain_fetched' = Inc(plain_fetched, r.url)
    /\ html' = [html EXCEPT ![w] = NoHtml]
    /\ pw_path' = [pw_path EXCEPT ![w] = "none"]
    /\ pw_result' = [pw_result EXCEPT ![w] = "no call"]
    /\ UNCHANGED <<cfg, others, phase, rp, discovered, results, use_pw,
                   shared_browser, lockVars, pages_open,
                   render_fetched, seed_fetched, output>>

\* (not html or len(html) < 600) and use_pw
NeedsRenderWithoutPlaywright(h) == h \in {NoHtml, "short"}
NeedsRender(h) == h \in {NoHtml, "short"} /\ use_pw

\* asyncio.Lock.acquire without waiting: the lock is free and nobody queues
LockFreeAlways == TRUE
LockFree == ~render_locked /\ render_waiters = <<>>

\* fetch_plain returns; the page is processed, or render_page is entered
FetchReturn(w) ==
    /\ phase = "crawl"
    /\ pc[w] = "fetch"
    /\ MayRun(w)
    /\ \E body \in PlainBodies :
         /\ html' = [html EXCEPT ![w] = body]
         /\ IF NeedsRender(body)
            THEN
              /\ IF LockFree
                 THEN /\ render_locked' = TRUE
                      /\ pc' = [pc EXCEPT ![w] = "new_page"]
                      /\ render_fetched' = Inc(render_fetched, cur[w])
                      /\ UNCHANGED render_waiters
                 ELSE /\ render_waiters' = Append(render_waiters, w)
                      /\ pc' = [pc EXCEPT ![w] = "lock"]
                      /\ UNCHANGED <<render_locked, render_fetched>>
              /\ UNCHANGED <<crawlVars, cur>>
            ELSE
              /\ Process(w, body, FALSE, FALSE)
              /\ UNCHANGED <<lockVars, render_fetched>>
    /\ UNCHANGED <<cfg, others, phase, rp, use_pw, shared_browser, pw_path,
                   pw_result, pages_open, plain_fetched, seed_fetched, output>>

\* the first waiter of render_lock gets the released lock and calls
\* fetch_with_playwright
AcquireRender(w) ==
    /\ phase = "crawl"
    /\ pc[w] = "lock"
    /\ ~render_locked
    /\ render_waiters # <<>> /\ Head(render_waiters) = w
    /\ render_locked' = TRUE
    /\ render_waiters' = Tail(render_waiters)
    /\ pc' = [pc EXCEPT ![w] = "new_page"]
    /\ render_fetched' = Inc(render_fetched, cur[w])
    /\ UNCHANGED <<cfg, others, phase, rp, crawlVars, use_pw, shared_browser, cur,
                   html, pw_path, pw_result, pages_open, plain_fetched,
                   seed_fetched, output>>

\* content or html
ContentOrPlainFirst(content, h) == IF h # NoHtml THEN h ELSE content
ContentOr(content, h) == IF content # NoHtml THEN content ELSE h

\* context.new_page(): the page is open; if it raises, render_page returns
\* (None, []) and the worker goes on with the plain body
PwNewPage(w) ==
    /\ phase = "crawl"
    /\ pc[w] = "new_page"
    /\ \E ok \in BOOLEAN :
         IF ok
         THEN /\ pages_open' = pages_open + 1
              /\ pc' = [pc EXCEPT ![w] = "goto"]
              /\ UNCHANGED <<crawlVars, render_locked, cur, html>>
         ELSE /\ render_locked' = FALSE
              /\ Process(w, ContentOr(NoHtml, html[w]), FALSE, TRUE)
              /\ UNCHANGED <<pages_open, html>>
    /\ UNCHANGED <<cfg, others, phase, rp, use_pw, shared_browser, render_waiters,
                   pw_path, pw_result, logVars, seed_fetched, output>>

\* page.goto: done, PlaywrightTimeoutError, or another exception; the
\* interaction steps that follow swallow their exceptions
PwGoto(w) ==
    /\ phase = "crawl"
    /\ pc[w] = "goto"
    /\ \E outcome \in {"ok", "timeout", "error"} :
         IF outcome = "ok"
         THEN /\ pc' = [pc EXCEPT ![w] = "content"]
              /\ UNCHANGED pw_path
         ELSE /\ pc' = [pc EXCEPT ![w] = "close"]
              /\ pw_path' = [pw_path EXCEPT ![w] = outcome]
    /\ UNCHANGED <<cfg, others, phase, rp, crawlVars, use_pw, shared_browser,
                   lockVars, cur, html, pw_result, pages_open, logVars,
                   seed_fetched, output>>

\* page.content(): the rendered HTML, or an exception
PwContent(w) ==
    /\ phase = "crawl"
    /\ pc[w] = "content"
    /\ \E ok \in BOOLEAN :
         pw_path' = [pw_path EXCEPT ![w] = IF ok THEN "success" ELSE "error"]
    /\ pc' = [pc EXCEPT ![w] = "close"]
    /\ UNCHANGED <<cfg, others, phase, rp, crawlVars, use_pw, shared_browser,
                   lockVars, cur, html, pw_result, pages_open, logVars,
                   seed_fetched, output>>

\* the number of open pages once fetch_with_playwright has left by an exit
\* path: page.close() is awaited on each of them
PagesAfterExitLeak(path, n) == IF path = "timeout" THEN n ELSE n - 1
PagesAfterExit(path, n) == n - 1

\* the content fetch_with_playwright returns on an exit path
PwContentOf(path) == IF path = "success" THEN "rendered" ELSE NoHtml

\* fetch_with_playwright returns its raw candidates on the success path only
PwHasCandidates(path) == path = "success"

\* page.close() is done and fetch_with_playwright returns; render_page
\* releases render_lock and the worker processes the page
PwReturn(w) ==
    /\ phase = "crawl"
    /\ pc[w] = "close"
    /\ pages_open' = PagesAfterExit(pw_path[w], pages_open)
    /\ render_locked' = FALSE
    /\ Process(w, ContentOr(PwContentOf(pw_path[w]), html[w]),
               PwHasCandidates(pw_path[w]), TRUE)
    /\ pw_result' = [pw_result EXCEPT ![w] = PwContentOf(pw_path[w])]
    /\ UNCHANGED <<cfg, others, phase, rp, use_pw, shared_browser, render_waiters,
                   html, pw_path, logVars, seed_fetched, output>>

----------------------------------------------------------------------------
(* The end of the run                                                      *)

AllWorkersDone == \A w \in Tasks : pc[w] = "done"

\* stop_playwright: context, browser and driver are closed
BrowserAfterStop(b) == IF b = "open" THEN "closed" ELSE b

\* asyncio.gather returns; stop_playwright if use_pw; the output document
\* is written
Finish ==
    /\ phase = "crawl"
    /\ AllWorkersDone
    /\ shared_browser' = IF use_pw THEN BrowserAfterStop(shared_browser)
                         ELSE shared_browser
    /\ output' = [results |-> results,
                  visited_count |-> Cardinality(visited),
                  discovered_count |-> Cardinality(discovered)]
    /\ phase' = "written"
    /\ UNCHANGED <<cfg, others, rp, crawlVars, use_pw, lockVars, workerVars, logVars,
                   seed_fetched>>

\* KeyboardInterrupt while the workers run: asyncio.run cancels the main
\* task and with it the workers at their awaits; robust_crawl is left by the
\* CancelledError at the gather, and its frame and those of the workers are
\* gone.  What stays is outside the program: the browser, its pages, and the
\* requests that were issued.
Interrupt ==
    /\ phase = "crawl"
    /\ phase' = "interrupted"
    /\ pc' = [w \in Workers |-> IF w \in Tasks THEN "cancelled" ELSE "absent"]
    /\ q' = <<>>
    /\ discovered' = {}
    /\ visited' = {}
    /\ results' = <<>>
    /\ render_locked' = FALSE
    /\ render_waiters' = <<>>
    /\ cur' = [w \in Workers |-> None]
    /\ html' = [w \in Workers |-> NoHtml]
    /\ pw_path' = [w \in Workers |-> "none"]
    /\ pw_result' = [w \in Workers |-> "no call"]
    /\ UNCHANGED <<cfg, others, rp, use_pw, shared_browser, pages_open, logVars,
                   seed_fetched, output>>

Worker(w) ==
    \/ Dequeue(w)
    \/ FetchReturn(w)
    \/ AcquireRender(w)
    \/ PwNewPage(w)
    \/ PwGoto(w)
    \/ PwContent(w)
    \/ PwReturn(w)

Next ==
    \/ LoadRobots
    \/ Seed
    \/ StartPlaywright
    \/ \E w \in Workers : Worker(w)
    \/ Finish
    \/ Interrupt

Spec == Init /\ [][Next]_vars

\* every task that can run is run by the event loop, every awaited call
\* returns, and robust_crawl itself goes on
LiveSpec ==
    /\ Spec
    /\ WF_vars(LoadRobots) /\ WF_vars(Seed) /\ WF_vars(StartPlaywright)
    /\ \A w \in Workers : WF_vars(Worker(w))
    /\ WF_vars(Finish)

----------------------------------------------------------------------------
(* normalize_url on its own: applied to a URL as written, and then to the   *)
(* text it returned                                                        *)

MaxSlashes == 2
MaxPairs == 2

\* the text of a URL: scheme://netloc path [?query] [#fragment]
UrlText(u) ==
    <<u.scheme, "://", u.netloc>> \o u.path
        \o (IF u.query # <<>> THEN <<"?">> \o u.query ELSE <<>>)
        \o (IF u.fragment # <<>> THEN <<"#">> \o u.fragment ELSE <<>>)

\* urlparse(text) for a text scheme://netloc...: the fragment starts at the
\* first '#', the query at the first '?' before it
urlparse(s) ==
    LET rest == SubSeq(s, 4, Len(s))
        h == IndexOf(rest, "#")
        nofrag == IF h = 0 THEN rest ELSE SubSeq(rest, 1, h - 1)
        frag == IF h = 0 THEN <<>> ELSE SubSeq(rest, h + 1, Len(rest))
        k == IndexOf(nofrag, "?")
    IN  Url(s[1], s[3],
            IF k = 0 THEN nofrag ELSE SubSeq(nofrag, 1, k - 1),
            IF k = 0 THEN <<>> ELSE SubSeq(nofrag, k + 1, Len(nofrag)),
            frag)

\* normalize_url of ai_crawler.py: the same steps, without the final
\* "netloc == ''" test
ai_normalize_url(u, base) ==
    IF u = None THEN None
    ELSE LET j == IF base # None THEN urljoin(base, u) ELSE u
             parsed == StripFragment(j)
             scheme == Lower(IF parsed.scheme = "" THEN "http"
                             ELSE parsed.scheme)
             netloc == Lower(parsed.netloc)
             path0 == IF parsed.path = <<>> THEN <<"/">> ELSE parsed.path
             path == IF path0 # <<"/">> /\ path0[Len(path0)] = "/"
                     THEN RStripSlash(path0) ELSE path0
             qs_items == parse_qsl(parsed.query)
             qs_filtered == SelectSeq(qs_items, LAMBDA kv : ~IsTracking(kv[1]))
             query == JoinQuery(qs_filtered)
         IN  Url(scheme, netloc, path, query, <<>>)

\* n '/' characters
RECURSIVE Slashes(_)
Slashes(n) == IF n = 0 THEN <<>> ELSE <<"/">> \o Slashes(n - 1)

\* the paths of the URLs given to normalize_url: nothing, /a or /a/b,
\* followed by up to MaxSlashes slashes
NormPaths ==
    {stem \o Slashes(n) :
        stem \in {<<>>, <<"/", "a">>, <<"/", "a", "/", "b">>},
        n \in 0..MaxSlashes}

\* the name[=value] pieces of their query strings, as written
NormPieces ==
    {<<"b", "=", "1">>,
     <<"b">>,
     <<"utm_", "source", "=", "x">>,
     <<"UTM_", "source", "=", "x">>,
     <<"GCLID", "=", "1">>,
     <<"gclid", "2", "=", "1">>,
     <<"b", "=", "c", "%26", "d">>,
     <<"b", "=", "c", "%23", "d">>,
     <<"b", "=", "c", "%3D", "d">>,
     <<"b", "=", "%26", "utm_", "x", "%3D", "1">>}

\* '&'.join(pieces)
RECURSIVE JoinPieces(_)
JoinPieces(pieces) ==
    IF pieces = <<>> THEN <<>>
    ELSE IF Len(pieces) = 1 THEN pieces[1]
    ELSE pieces[1] \o <<"&">> \o JoinPieces(Tail(pieces))

\* the query strings: up to MaxPairs pieces, duplicates included
NormQueries ==
    {JoinPieces(ps) : ps \in UNION {[1..n -> NormPieces] : n \in 0..MaxPairs}}

\* scheme and host as written
NormOrigins == {<<"http", "h">>, <<"HTTP", "H">>, <<"http", "">>}

NormInputs ==
    {Url(o[1], o[2], p, qs, f) :
        o \in NormOrigins, p \in NormPaths, qs \in NormQueries,
        f \in {<<>>, <<"top">>}}

robustOff ==
    /\ cfg = [start_url |-> U_root, max_pages |-> 1, concurrency |-> 1,
              ignore_robots |-> FALSE, use_sitemaps |-> FALSE,
              no_playwright |-> TRUE]
    /\ phase = "off"
    /\ rp = NoPolicy
    /\ q = <<>>
    /\ discovered = {}
    /\ visited = {}
    /\ results = <<>>
    /\ use_pw = FALSE
    /\ shared_browser = "none"
    /\ render_locked = FALSE
    /\ render_waiters = <<>>
    /\ pc = [w \in Workers |-> "absent"]
    /\ cur = [w \in Workers |-> None]
    /\ html = [w \in Workers |-> NoHtml]
    /\ pw_path = [w \in Workers |-> "none"]
    /\ pw_result = [w \in Workers |-> "no call"]
    /\ pages_open = 0
    /\ plain_fetched = NoCounts
    /\ render_fetched = NoCounts
    /\ seed_fetched = {}
    /\ output = NoOutput

NormInit ==
    /\ robustOff
    /\ KeywordOff
    /\ ProductOff
    /\ AiOff
    /\ ScrollOff
    /\ LinkedinOff
    /\ SitemapOff
    /\ norm_pc = "input"
    /\ norm_in \in NormInputs
    /\ norm_out = None
    /\ norm_again = None
    /\ ai_out = None
    /\ ai_again = None

\* normalize_url(u), for the text u
NormalizeInput ==
    /\ norm_pc = "input"
    /\ norm_out' = normalize_url(urlparse(UrlText(norm_in)), None)
    /\ ai_out' = ai_normalize_url(urlparse(UrlText(norm_in)), None)
    /\ norm_pc' = "once"
    /\ UNCHANGED <<notNorm, norm_in, norm_again, ai_again>>

\* normalize_url of the text that normalize_url returned
Renormalize(n) ==
    IF n = None THEN None ELSE normalize_url(urlparse(UrlString(n)), None)

ai_Renormalize(n) ==
    IF n = None THEN None ELSE ai_normalize_url(urlparse(UrlString(n)), None)

NormalizeAgain ==
    /\ norm_pc = "once"
    /\ norm_again' = Renormalize(norm_out)
    /\ ai_again' = ai_Renormalize(ai_out)
    /\ norm_pc' = "twice"
    /\ UNCHANGED <<notNorm, norm_in, norm_out, ai_out>>

NormNext == NormalizeInput \/ NormalizeAgain

NormSpec == NormInit /\ [][NormNext]_vars

----------------------------------------------------------------------------
(* urllib.robotparser.RobotFileParser, as the Robots wrappers use it        *)

\* A robots.txt is a sequence of blocks, each with its User-agent, the path
\* prefixes it disallows and its Crawl-delay (a set: empty when the block has
\* none), in tenths of a second.  The agent "self" is the crawler's own name.
Block(agent, disallow, crawl_delay) ==
    [agent |-> agent, disallow |-> disallow, crawl_delay |-> crawl_delay]

\* robotparser.RobotFileParser(): nothing is read yet
RobotFileParser ==
    [last_checked |-> FALSE, allow_all |-> FALSE, disallow_all |-> FALSE,
     entries |-> <<>>]

\* how rp.read() ends: urlopen raises (URLError, timeout), robots.txt is
\* served and parsed, the server answers 401/403, or another 4xx
ReadOutcomes == {"raised", "parsed", "forbidden", "missing"}

\* rp.read(): only a served robots.txt sets last_checked (through parse)
rp_read(p, outcome, text) ==
    CASE outcome = "parsed" ->
             [p EXCEPT !.last_checked = TRUE, !.entries = text]
      [] outcome = "forbidden" -> [p EXCEPT !.disallow_all = TRUE]
      [] outcome = "missing" -> [p EXCEPT !.allow_all = TRUE]
      [] OTHER -> p

\* Entry.applies_to(useragent), and the test of the Crawl-delay scan
AppliesTo(agent) == agent \in {"*", "self"}

\* the entry that decides: the first named entry that applies, else the
\* default entry '*'
EntryFor(entries) ==
    LET named == SelectSeq(entries,
                           LAMBDA e : e.agent # "*" /\ AppliesTo(e.agent))
        star == SelectSeq(entries, LAMBDA e : e.agent = "*")
    IN  IF named # <<>> THEN <<named[1]>>
        ELSE IF star # <<>> THEN <<star[1]>>
        ELSE <<>>

\* RobotFileParser.can_fetch(useragent, url): until robots.txt has been
\* read, no URL is allowed
rp_can_fetch(p, u) ==
    IF p.disallow_all THEN FALSE
    ELSE IF p.allow_all THEN TRUE
    ELSE IF ~p.last_checked THEN FALSE
    ELSE LET e == EntryFor(p.entries)
             path == IF u.path = <<>> THEN <<"/">> ELSE u.path
         IN  e = <<>> \/ ~(\E d \in e[1].disallow : IsPrefix(d, path))

----------------------------------------------------------------------------
(* keyword_crawler.py                                                      *)

KwHost == "k"
K_root == Abs(KwHost, <<>>, <<>>)
KwPage(name) == Abs(KwHost, <<"/", name>>, <<>>)

Link(href, anchor) == [href |-> href, anchor |-> anchor]

\* the <a href> elements of the pages of the site, in document order
KwPageLinks(u) ==
    CASE u = K_root ->
             <<Link(Rel(<<"/", "products">>, <<>>), "Shop"),
               Link(Rel(<<"/", "about", "/">>, <<>>), "About"),
               Link(U_other, "Partner"),
               Link(Rel(<<"/", "private">>, <<>>), "Courses")>>
      [] u = KwPage("products") ->
             <<Link(Url("", "", <<"/", "about">>, <<>>, <<"team">>), "About"),
               Link(Rel(<<"/", "private">>, <<>>), "Courses")>>
      [] OTHER -> <<>>

\* the robots.txt files the site may serve
RobotsTexts ==
    {<<Block("*", {<<"/", "private">>}, {20})>>,
     <<Block("other", {<<"/">>}, {2}), Block("*", {}, {})>>,
     <<Block("self", {}, {2}), Block("*", {<<"/", "private">>}, {20})>>}

\* the values of --delay, in tenths of a second
KwDelays == {5, 10}

Max(a, b) == IF a >= b THEN a ELSE b

\* the Crawl-delay scan of Robots.__init__: the first block for '*' or for
\* the crawler's agent that has a Crawl-delay line
ParseCrawlDelay(text) ==
    LET m == SelectSeq(text,
                       LAMBDA b : AppliesTo(b.agent) /\ b.crawl_delay # {})
    IN  IF m = <<>> THEN {} ELSE m[1].crawl_delay

\* Robots(site_url, user_agent): rp.read() in a try, then requests.get of
\* the same robots.txt for the Crawl-delay (got: it returned a text)
kw_Robots(outcome, got, text) ==
    [read |-> outcome,
     rp |-> rp_read(RobotFileParser, outcome, text),
     crawl_delay |-> IF got THEN ParseCrawlDelay(text) ELSE {}]

\* Robots.can_fetch: rp.can_fetch raises for no URL, so its result is returned
kw_can_fetch(r, u) == rp_can_fetch(r.rp, u)

\* str.rstrip("/") on the text of a URL without query
rstrip_url(u) ==
    IF u.query = <<>> /\ u.fragment = <<>>
    THEN [u EXCEPT !.path = RStripSlash(@)]
    ELSE u

\* normalize_url(base, link) of keyword_crawler.py: urljoin and urldefrag
kw_normalize_url(base, link) ==
    IF link = None THEN None
    ELSE [urljoin(base, link) EXCEPT !.fragment = <<>>]

\* same_domain
same_domain(u) == u.netloc = KwHost \/ u.netloc = ""

KEYWORD_TOKENS == {"product", "products", "course", "courses", "certify",
                   "certificate", "certification", "certifications"}

\* looks_relevant(url, anchor_text)
looks_relevant(u, anchor) ==
    \E t \in {u.path[i] : i \in DOMAIN u.path} \cup {anchor} :
        Lower(t) \in KEYWORD_TOKENS

NoFutures == [u \in {} |-> u]

KeywordInit ==
    /\ robustOff
    /\ NormOff
    /\ ProductOff
    /\ AiOff
    /\ ScrollOff
    /\ LinkedinOff
    /\ SitemapOff
    /\ kw_pc = "new"
    /\ kw_cfg \in [max_pages : {1, 2, MaxPages}, delay : KwDelays,
                   concurrency : 1..MaxWorkers]
    /\ robots = [read |-> "off"]
    /\ kw_delay = 0
    /\ to_visit = <<>>
    /\ kw_visited = {}
    /\ found_links = {}
    /\ futures = NoFutures
    /\ kw_fetched = {}
    /\ kw_pause = NoPause
    /\ kw_saved = {}
    /\ kw_url = None

\* KeywordCrawler.__init__ for the start URL http://k/
KwCreate ==
    /\ kw_pc = "new"
    /\ \E outcome \in ReadOutcomes, got \in BOOLEAN, text \in RobotsTexts :
         /\ robots' = kw_Robots(outcome, got, text)
         /\ kw_delay' =
                IF robots'.crawl_delay = {} THEN kw_cfg.delay
                ELSE Max(kw_cfg.delay, CHOOSE d \in robots'.crawl_delay : TRUE)
    /\ to_visit' = <<rstrip_url(Abs(KwHost, <<"/">>, <<>>))>>
    /\ kw_pc' = "loop"
    /\ UNCHANGED <<notKeyword, kw_cfg, kw_visited, found_links, futures,
                   kw_fetched, kw_pause, kw_saved, kw_url>>

\* while self.to_visit and len(self.visited) < self.max_pages
KwLoopCondition == to_visit # <<>> /\ Cardinality(kw_visited) < kw_cfg.max_pages

\* time.sleep(self.delay / max(1, self.concurrency))
SleepTime(d, c) == [num |-> d, den |-> Max(1, c)]

\* the loop of run from its test to the robots test: popleft is not under
\* self.lock
KwPop ==
    /\ kw_pc = "loop"
    /\ KwLoopCondition
    /\ to_visit' = Tail(to_visit)
    /\ LET url == rstrip_url(IF Head(to_visit).scheme = ""
                             THEN [Head(to_visit) EXCEPT !.scheme = "http",
                                                         !.netloc = KwHost]
                             ELSE Head(to_visit))
       IN  IF ~kw_can_fetch(robots, url)
           THEN UNCHANGED <<kw_pc, kw_url>>
           ELSE kw_pc' = "popped" /\ kw_url' = url
    /\ UNCHANGED <<notKeyword, kw_cfg, robots, kw_delay, kw_visited,
                   found_links, futures, kw_fetched, kw_pause, kw_saved>>

\* with self.lock: the visited test and visited.add; then exe.submit and the
\* call of time.sleep
KwSubmit ==
    /\ kw_pc = "popped"
    /\ kw_url' = None
    /\ IF kw_url \in kw_visited
       THEN /\ kw_pc' = "loop"
            /\ UNCHANGED <<kw_visited, futures, kw_pause>>
       ELSE /\ kw_visited' = kw_visited \cup {kw_url}
            /\ futures' = [u \in DOMAIN futures \cup {kw_url} |->
                              IF u = kw_url
                              THEN [st |-> "queued", links |-> <<>>]
                              ELSE futures[u]]
            /\ kw_pause' = SleepTime(kw_delay, kw_cfg.concurrency)
            /\ kw_pc' = "sleep"
    /\ UNCHANGED <<notKeyword, kw_cfg, robots, kw_delay, to_visit, found_links,
                   kw_fetched, kw_saved>>

\* the sleep is over: the futures that are done are deleted
KwWake ==
    /\ kw_pc = "sleep"
    /\ futures' = [u \in {v \in DOMAIN futures : futures[v].st # "done"} |->
                      futures[u]]
    /\ kw_pc' = "loop"
    /\ UNCHANGED <<notKeyword, kw_cfg, robots, kw_delay, to_visit, kw_visited,
                   found_links, kw_fetched, kw_pause, kw_saved, kw_url>>

\* the loop ends; run waits for the remaining futures
KwLoopExit ==
    /\ kw_pc = "loop"
    /\ ~KwLoopCondition
    /\ kw_pc' = "join"
    /\ UNCHANGED <<notKeyword, kw_cfg, robots, kw_delay, to_visit, kw_visited,
                   found_links, futures, kw_fetched, kw_pause, kw_saved, kw_url>>

\* every future is done and the executor is shut down: save_results
KwSave ==
    /\ kw_pc = "join"
    /\ \A u \in DOMAIN futures : futures[u].st = "done"
    /\ futures' = NoFutures
    /\ kw_saved' = found_links
    /\ kw_pc' = "saved"
    /\ UNCHANGED <<notKeyword, kw_cfg, robots, kw_delay, to_visit, kw_visited,
                   found_links, kw_fetched, kw_pause, kw_url>>

\* a pool thread takes process_page(u): the robots test, then session.get
KwTaskStart(u) ==
    /\ kw_pc \in {"loop", "popped", "sleep", "join"}
    /\ u \in DOMAIN futures /\ futures[u].st = "queued"
    /\ Cardinality({v \in DOMAIN futures :
                        futures[v].st \in {"fetching", "links"}})
           < kw_cfg.concurrency
    /\ IF kw_can_fetch(robots, u)
       THEN /\ futures' = [futures EXCEPT ![u].st = "fetching"]
            /\ kw_fetched' = kw_fetched \cup {u}
       ELSE /\ futures' = [futures EXCEPT ![u].st = "done"]
            /\ UNCHANGED kw_fetched
    /\ UNCHANGED <<notKeyword, kw_pc, kw_cfg, robots, kw_delay, to_visit,
                   kw_visited, found_links, kw_pause, kw_saved, kw_url>>

\* session.get returns: an exception or a status >= 400 ends process_page,
\* otherwise the links of the page are to be handled
KwTaskResponse(u) ==
    /\ u \in DOMAIN futures /\ futures[u].st = "fetching"
    /\ \E ok \in BOOLEAN :
         futures' = [futures EXCEPT ![u] =
                        IF ok /\ KwPageLinks(u) # <<>>
                        THEN [st |-> "links", links |-> KwPageLinks(u)]
                        ELSE [st |-> "done", links |-> <<>>]]
    /\ UNCHANGED <<notKeyword, kw_pc, kw_cfg, robots, kw_delay, to_visit,
                   kw_visited, found_links, kw_fetched, kw_pause, kw_saved, kw_url>>

\* one turn of the loop over the links of page u
KwTaskLink(u) ==
    /\ u \in DOMAIN futures /\ futures[u].st = "links"
    /\ LET a == Head(futures[u].links)
           rest == Tail(futures[u].links)
           link == kw_normalize_url(u, a.href)
           kept == /\ link # None
                   /\ link.scheme \notin {"mailto", "tel", "javascript"}
                   /\ same_domain(link)
       IN  /\ futures' = [futures EXCEPT ![u] =
                             IF rest = <<>> THEN [st |-> "done", links |-> <<>>]
                             ELSE [st |-> "links", links |-> rest]]
           /\ to_visit' =
                  IF /\ kept
                     /\ link \notin kw_visited
                     /\ \A i \in DOMAIN to_visit : to_visit[i] # link
                     /\ Cardinality(kw_visited) + Len(to_visit) < kw_cfg.max_pages
                  THEN Append(to_visit, link)
                  ELSE to_visit
           /\ found_links' =
                  IF /\ kept
                     /\ looks_relevant(link, a.anchor)
                     /\ ~(\E f \in found_links : f.url = link)
                  THEN found_links \cup {[url |-> link, found_on |-> u]}
                  ELSE found_links
    /\ UNCHANGED <<notKeyword, kw_pc, kw_cfg, robots, kw_delay, kw_visited,
                   kw_fetched, kw_pause, kw_saved, kw_url>>

KwUrls == {K_root, KwPage("products"), KwPage("about"), KwPage("private")}

KeywordNext ==
    \/ KwCreate
    \/ KwPop
    \/ KwSubmit
    \/ KwWake
    \/ KwLoopExit
    \/ KwSave
    \/ \E u \in KwUrls : KwTaskStart(u) \/ KwTaskResponse(u) \/ KwTaskLink(u)

KeywordSpec == KeywordInit /\ [][KeywordNext]_vars

----------------------------------------------------------------------------
(* product_crawler.py                                                      *)

PrHost == "p"
PrPage(name) == Abs(PrHost, <<"/", name>>, <<>>)

\* the sitemap index of the site and its two children
SM_index == PrPage("sitemap.xml")
SM_1 == PrPage("s1.xml")
SM_2 == PrPage("s2.xml")

\* what a sitemap URL serves: a <sitemapindex> or a <urlset> with the <loc>
\* texts of its entries, a body that is not XML, or no answer
SitemapDoc(kind, locs) == [kind |-> kind, locs |-> locs]

FirstChild == <<PrPage("products"), PrPage("a"), PrPage("b")>>

\* what the three sitemap URLs may serve during a run: the second child is
\* disjoint from the first, overlaps it, lists a URL of another host, or is
\* not XML
SitemapWorlds ==
    {[s \in {SM_index, SM_1, SM_2} |->
         CASE s = SM_index -> SitemapDoc("sitemapindex", <<SM_1, SM_2>>)
           [] s = SM_1 -> c1
           [] OTHER -> c2] :
        c1 \in {SitemapDoc("urlset", FirstChild),
                SitemapDoc("unfetchable", <<>>)},
        c2 \in {SitemapDoc("urlset",
                           <<PrPage("c"), PrPage("private"), PrPage("e")>>),
                SitemapDoc("urlset",
                           <<PrPage("b"), PrPage("c"), PrPage("private")>>),
                SitemapDoc("urlset",
                           <<PrPage("c"), PrPage("private"),
                             Abs("www.p", <<"/", "e">>, <<>>)>>),
                SitemapDoc("malformed", <<>>)}}

RECURSIVE fetch_sitemap_urls(_, _)
RECURSIVE ChildUrls(_, _)

\* urls.extend(fetch_sitemap_urls(loc)) for each <sitemap> entry of an index,
\* and all_urls.extend(fetch_sitemap_urls(s)) for each given sitemap
ChildUrls(docs, locs) ==
    IF locs = <<>> THEN <<>>
    ELSE fetch_sitemap_urls(docs, Head(locs)) \o ChildUrls(docs, Tail(locs))

\* fetch_sitemap_urls(sitemap_url)
fetch_sitemap_urls(docs, s) ==
    IF s \notin DOMAIN docs \/ docs[s].kind \in {"unfetchable", "malformed"}
    THEN <<>>
    ELSE LET d == docs[s]
             urls == IF d.kind = "sitemapindex" THEN ChildUrls(docs, d.locs)
                     ELSE d.locs
         IN  IF urls = <<>> THEN d.locs ELSE urls

NotSeenAlways(u, seen) == TRUE
NotSeen(u, seen) == \A i \in DOMAIN seen : seen[i] # u

RECURSIVE Unique(_, _)
\* the loop of crawl_from_sitemaps that keeps the first occurrence of each
\* URL of all_urls (seen: the URLs kept so far)
Unique(all, seen) ==
    IF all = <<>> THEN seen
    ELSE Unique(Tail(all),
                IF NotSeen(Head(all), seen) THEN Append(seen, Head(all))
                ELSE seen)

SeqSet(sq) == {sq[i] : i \in DOMAIN sq}

\* Robots(base_url) of product_crawler.py
pr_Robots(outcome, text) ==
    [read |-> outcome, rp |-> rp_read(RobotFileParser, outcome, text)]

\* robots and not robots.can_fetch(url); rp.can_fetch raises for no URL
pr_blocked(r, u) == r.read # "ignored" /\ ~rp_can_fetch(r.rp, u)

\* the <a href> of the pages of the site
PrPageLinks(u) ==
    IF u = PrPage("products")
    THEN <<Rel(<<"/", "a">>, <<>>),
           Url("", "", <<"/", "new">>, <<>>, <<"top">>),
           Url("mailto", "", <<"sales">>, <<>>, <<>>),
           U_other>>
    ELSE <<>>

\* what requests.get returns for a page: a long body, a body under 200
\* characters, or an error
PlainBody(u) ==
    CASE u \in {PrPage("a"), PrPage("new")} -> "short"
      [] u = PrPage("b") -> NoHtml
      [] OTHER -> "long"

\* any(tok in url_lower for tok in tokens)
heuristics_is_item(u) ==
    \E i \in DOMAIN u.path : u.path[i] \in {"products", "course", "shop"}

ProductInit ==
    /\ robustOff
    /\ NormOff
    /\ KeywordOff
    /\ AiOff
    /\ ScrollOff
    /\ LinkedinOff
    /\ SitemapOff
    /\ pr_pc = "sitemaps"
    /\ pr_cfg \in [sitemaps : {<<SM_index>>, <<SM_1, SM_2>>, <<SM_index, SM_1>>},
                   max_pages : {1, MaxPages},
                   concurrency : 1..MaxWorkers,
                   ignore_robots : BOOLEAN]
    /\ sitemap_docs \in SitemapWorlds
    /\ all_urls = <<>>
    /\ pr_robots = [read |-> "off"]
    /\ pr_q = <<>>
    /\ pr_visited = {}
    /\ pr_discovered = {}
    /\ items = <<>>
    /\ pr_wpc = [w \in Workers |-> "absent"]
    /\ pr_cur = [w \in Workers |-> None]
    /\ pr_html = [w \in Workers |-> NoHtml]
    /\ pr_fetched = {}
    /\ pr_out = NoProducts

\* base_host = urlparse(sitemaps[0]).netloc
pr_base_host == pr_cfg.sitemaps[1].netloc

\* crawl_from_sitemaps up to the launch of the browser: the sitemaps are
\* fetched, the URLs made unique, and q holds those of the first sitemap's host
PrSeed ==
    /\ pr_pc = "sitemaps"
    /\ all_urls' = ChildUrls(sitemap_docs, pr_cfg.sitemaps)
    /\ LET urls == Unique(all_urls', <<>>)
       IN  IF urls = <<>>
           THEN /\ pr_pc' = "returned"
                /\ UNCHANGED <<pr_robots, pr_q, pr_discovered>>
           ELSE /\ pr_pc' = "launch"
                /\ IF pr_cfg.ignore_robots
                   THEN pr_robots' = [read |-> "ignored"]
                   ELSE \E outcome \in ReadOutcomes, text \in RobotsTexts :
                            pr_robots' = pr_Robots(outcome, text)
                /\ pr_q' = SelectSeq(urls, LAMBDA u : u.netloc = pr_base_host)
                /\ pr_discovered' = SeqSet(urls)
    /\ UNCHANGED <<notProduct, pr_cfg, sitemap_docs, pr_visited, items, pr_wpc,
                   pr_cur, pr_html, pr_fetched, pr_out>>

\* async_playwright() and chromium.launch: the workers are created, or the
\* exception ends crawl_from_sitemaps
PrLaunch ==
    /\ pr_pc = "launch"
    /\ \E ok \in BOOLEAN :
         IF ok
         THEN /\ pr_pc' = "workers"
              /\ pr_wpc' = [w \in Workers |->
                               IF w <= pr_cfg.concurrency THEN "idle"
                               ELSE "absent"]
         ELSE /\ pr_pc' = "raised"
              /\ UNCHANGED pr_wpc
    /\ UNCHANGED <<notProduct, pr_cfg, sitemap_docs, all_urls, pr_robots, pr_q,
                   pr_visited, pr_discovered, items, pr_cur, pr_html,
                   pr_fetched, pr_out>>

\* a worker from the top of its loop to its next await, or to its end
PrDequeue(w) ==
    /\ pr_pc = "workers"
    /\ pr_wpc[w] = "idle"
    /\ IF pr_q = <<>>
       THEN /\ pr_wpc' = [pr_wpc EXCEPT ![w] = "done"]
            /\ UNCHANGED <<pr_q, pr_visited, pr_cur, pr_fetched>>
       ELSE LET url == Head(pr_q)
            IN  /\ pr_q' = Tail(pr_q)
                /\ IF Cardinality(pr_visited) >= pr_cfg.max_pages
                   THEN /\ pr_wpc' = [pr_wpc EXCEPT ![w] = "done"]
                        /\ UNCHANGED <<pr_visited, pr_cur, pr_fetched>>
                   ELSE IF url \in pr_visited
                   THEN UNCHANGED <<pr_wpc, pr_visited, pr_cur, pr_fetched>>
                   ELSE IF url.netloc # pr_base_host
                           \/ pr_blocked(pr_robots, url)
                   THEN /\ pr_visited' = pr_visited \cup {url}
                        /\ UNCHANGED <<pr_wpc, pr_cur, pr_fetched>>
                   ELSE /\ pr_wpc' = [pr_wpc EXCEPT ![w] = "plain"]
                        /\ pr_cur' = [pr_cur EXCEPT ![w] = url]
                        /\ pr_fetched' = pr_fetched \cup {url}
                        /\ UNCHANGED pr_visited
    /\ UNCHANGED <<notProduct, pr_pc, pr_cfg, sitemap_docs, all_urls,
                   pr_robots, pr_discovered, items, pr_html, pr_out>>

\* the links of a page that are appended to q, in document order
PrNewLinks(u, disc) ==
    LET joined == [i \in DOMAIN PrPageLinks(u) |->
                      [urljoin(u, PrPageLinks(u)[i]) EXCEPT !.fragment = <<>>]]
        kept == SelectSeq(joined,
                          LAMBDA l : /\ l.scheme \notin {"mailto", "tel"}
                                     /\ l.netloc = pr_base_host
                                     /\ l \notin disc)
    IN  Unique(kept, <<>>)

\* from visited.add(url) to the asyncio.sleep(delay) that ends the iteration
PrProcess(w, h) ==
    /\ pr_visited' = pr_visited \cup {pr_cur[w]}
    /\ pr_html' = [pr_html EXCEPT ![w] = h]
    /\ pr_wpc' = [pr_wpc EXCEPT ![w] = "idle"]
    /\ IF h = NoHtml
       THEN UNCHANGED <<items, pr_q, pr_discovered>>
       ELSE /\ items' = IF heuristics_is_item(pr_cur[w])
                        THEN Append(items, pr_cur[w]) ELSE items
            /\ pr_q' = pr_q \o PrNewLinks(pr_cur[w], pr_discovered)
            /\ pr_discovered' =
                   pr_discovered \cup SeqSet(PrNewLinks(pr_cur[w], pr_discovered))

\* fetch_plain returns; not html or len(html) < 200 sends to the renderer
PrPlainReturn(w) ==
    /\ pr_wpc[w] = "plain"
    /\ IF PlainBody(pr_cur[w]) \in {NoHtml, "short"}
       THEN /\ pr_wpc' = [pr_wpc EXCEPT ![w] = "render"]
            /\ pr_html' = [pr_html EXCEPT ![w] = PlainBody(pr_cur[w])]
            /\ UNCHANGED <<pr_visited, items, pr_q, pr_discovered>>
       ELSE PrProcess(w, PlainBody(pr_cur[w]))
    /\ UNCHANGED <<notProduct, pr_pc, pr_cfg, sitemap_docs, all_urls,
                   pr_robots, pr_cur, pr_fetched, pr_out>>

\* fetch_with_playwright returns the rendered page, or None
PrRenderReturn(w) ==
    /\ pr_wpc[w] = "render"
    /\ \E h \in {NoHtml, "rendered"} : PrProcess(w, h)
    /\ UNCHANGED <<notProduct, pr_pc, pr_cfg, sitemap_docs, all_urls,
                   pr_robots, pr_cur, pr_fetched, pr_out>>

\* gather returns, the browser is closed and the output is written
PrWrite ==
    /\ pr_pc = "workers"
    /\ \A w \in Workers : pr_wpc[w] \in {"done", "absent"}
    /\ pr_pc' = "written"
    /\ pr_out' = [items_found |-> items,
                  visited_count |-> Cardinality(pr_visited)]
    /\ UNCHANGED <<notProduct, pr_cfg, sitemap_docs, all_urls, pr_robots, pr_q,
                   pr_visited, pr_discovered, items, pr_wpc, pr_cur, pr_html,
                   pr_fetched>>

ProductNext ==
    \/ PrSeed
    \/ PrLaunch
    \/ \E w \in Workers : PrDequeue(w) \/ PrPlainReturn(w) \/ PrRenderReturn(w)
    \/ PrWrite

ProductSpec == ProductInit /\ [][ProductNext]_vars

----------------------------------------------------------------------------
(* crawl of ai_crawler.py, on a site whose robots.txt disallows nothing    *)

AiPage(name) == Abs("a", <<"/", name>>, <<>>)

\* the <a href> of the pages of the site: /x carries an href whose host has
\* an unmatched '[', on which urljoin and urlparse raise ValueError
AiPageHrefs(u) ==
    CASE u = Abs("a", <<"/">>, <<>>) ->
             {Rel(<<"/", "x">>, <<>>), Rel(<<"/", "y">>, <<>>)}
      [] u = AiPage("x") -> {Rel(<<"/", "z">>, <<>>), Abs("[bad", <<"/">>, <<>>)}
      [] OTHER -> {}

\* extract_links_from_html(base_url, html) raises: normalize_url is called
\* outside any try
ai_extract_raises(u) == \E href \in AiPageHrefs(u) : href.netloc = "[bad"

\* extract_links_from_html(base_url, html), when it returns
ai_extract_links(u) ==
    {ai_normalize_url(href, u) : href \in AiPageHrefs(u)} \ {None}

AiInit ==
    /\ robustOff
    /\ NormOff
    /\ KeywordOff
    /\ ProductOff
    /\ ScrollOff
    /\ LinkedinOff
    /\ SitemapOff
    /\ ai_pc = "start"
    /\ ai_cfg \in [max_pages : {1, MaxPages}, concurrency : 1..MaxWorkers,
                   no_playwright : BOOLEAN]
    /\ ai_q = <<>>
    /\ ai_visited = {}
    /\ ai_discovered = {}
    /\ ai_results = <<>>
    /\ ai_wpc = [w \in Workers |-> "absent"]
    /\ ai_cur = [w \in Workers |-> None]

\* crawl('http://a/') up to the creation of the worker tasks; the launch of
\* the browser may fail, which leaves browser_context None
AiStart ==
    /\ ai_pc = "start"
    /\ ai_q' = <<ai_normalize_url(Abs("a", <<"/">>, <<>>), None)>>
    /\ ai_discovered' = {ai_normalize_url(Abs("a", <<"/">>, <<>>), None)}
    /\ \E launched \in BOOLEAN :
           ai_pc' = IF ~ai_cfg.no_playwright /\ launched THEN "crawl_pw"
                    ELSE "crawl"
    /\ ai_wpc' = [w \in Workers |->
                     IF w <= ai_cfg.concurrency THEN "ready" ELSE "absent"]
    /\ UNCHANGED <<notAi, ai_cfg, ai_visited, ai_results, ai_cur>>

\* the event loop runs the tasks in the order of create_task, each up to its
\* first await, before it delivers the result of any await
AiMayRun(w) ==
    IF ai_wpc[w] = "ready"
    THEN \A v \in Workers : v < w => ai_wpc[v] # "ready"
    ELSE \A v \in Workers : ai_wpc[v] # "ready"

\* the head of the worker's loop, up to fetch_plain or the end of the worker
AiDequeue(w) ==
    /\ ai_pc \in {"crawl", "crawl_pw"}
    /\ ai_wpc[w] \in {"ready", "sleep"}
    /\ AiMayRun(w)
    /\ IF ai_q = <<>> \/ Cardinality(ai_visited) >= ai_cfg.max_pages
       THEN /\ ai_wpc' = [ai_wpc EXCEPT ![w] = "done"]
            /\ UNCHANGED <<ai_q, ai_visited, ai_cur>>
       ELSE /\ ai_q' = Tail(ai_q)
            /\ IF Head(ai_q) \in ai_visited
               THEN UNCHANGED <<ai_wpc, ai_visited, ai_cur>>
               ELSE IF Head(ai_q).netloc # "a"
               THEN /\ ai_visited' = ai_visited \cup {Head(ai_q)}
                    /\ UNCHANGED <<ai_wpc, ai_cur>>
               ELSE /\ ai_wpc' = [ai_wpc EXCEPT ![w] = "fetch"]
                    /\ ai_cur' = [ai_cur EXCEPT ![w] = Head(ai_q)]
                    /\ UNCHANGED ai_visited
    /\ UNCHANGED <<notAi, ai_pc, ai_cfg, ai_discovered, ai_results>>

\* from visited.add(url) to the sleep, or to the exception that ends the
\* worker task; h is the content
AiProcess(w, h) ==
    /\ ai_visited' = ai_visited \cup {ai_cur[w]}
    /\ IF h = NoHtml
       THEN /\ ai_wpc' = [ai_wpc EXCEPT ![w] = "sleep"]
            /\ UNCHANGED <<ai_q, ai_discovered, ai_results>>
       ELSE IF ai_extract_raises(ai_cur[w])
       THEN /\ ai_wpc' = [ai_wpc EXCEPT ![w] = "raised"]
            /\ UNCHANGED <<ai_q, ai_discovered, ai_results>>
       ELSE LET new == {l \in ai_extract_links(ai_cur[w]) :
                            l.netloc = "a" /\ l \notin ai_discovered}
            IN  /\ ai_results' = Append(ai_results, ai_cur[w])
                /\ ai_discovered' = ai_discovered \cup new
                /\ \E order \in Orders(new) : ai_q' = ai_q \o order
                /\ ai_wpc' = [ai_wpc EXCEPT ![w] = "sleep"]

\* fetch_plain returns; (not html or len(html) < 500) and a browser context
\* send the worker to fetch_with_playwright
AiPlainReturn(w) ==
    /\ ai_pc \in {"crawl", "crawl_pw"}
    /\ ai_wpc[w] = "fetch"
    /\ AiMayRun(w)
    /\ \E h \in PlainBodies :
           IF h \in {NoHtml, "short"} /\ ai_pc = "crawl_pw"
           THEN /\ ai_wpc' = [ai_wpc EXCEPT ![w] = "render"]
                /\ UNCHANGED <<ai_q, ai_visited, ai_discovered, ai_results>>
           ELSE AiProcess(w, h)
    /\ UNCHANGED <<notAi, ai_pc, ai_cfg, ai_cur>>

\* fetch_with_playwright returns the rendered page, or None
AiRenderReturn(w) ==
    /\ ai_pc = "crawl_pw"
    /\ ai_wpc[w] = "render"
    /\ AiMayRun(w)
    /\ \E h \in {NoHtml, "rendered"} : AiProcess(w, h)
    /\ UNCHANGED <<notAi, ai_pc, ai_cfg, ai_cur>>

\* gather re-raises the exception of a worker task: crawl is left without
\* writing the output, and asyncio.run cancels the tasks still running
AiGatherRaises ==
    /\ ai_pc \in {"crawl", "crawl_pw"}
    /\ \E w \in Workers : ai_wpc[w] = "raised"
    /\ ai_pc' = "raised"
    /\ ai_wpc' = [w \in Workers |->
                     IF ai_wpc[w] \in {"absent", "done", "raised"}
                     THEN ai_wpc[w] ELSE "cancelled"]
    /\ UNCHANGED <<notAi, ai_cfg, ai_q, ai_visited, ai_discovered, ai_results,
                   ai_cur>>

\* gather returns and the output document is written
AiWrite ==
    /\ ai_pc \in {"crawl", "crawl_pw"}
    /\ \A w \in Workers : ai_wpc[w] \in {"absent", "done"}
    /\ ai_pc' = "written"
    /\ UNCHANGED <<notAi, ai_cfg, ai_q, ai_visited, ai_discovered, ai_results,
                   ai_wpc, ai_cur>>

AiNext ==
    \/ AiStart
    \/ \E w \in Workers : AiDequeue(w) \/ AiPlainReturn(w) \/ AiRenderReturn(w)
    \/ AiGatherRaises
    \/ AiWrite

AiSpec == AiInit /\ [][AiNext]_vars

\* asyncio runs a task that can go on, and every await of the model returns
AiLiveSpec == AiSpec /\ WF_vars(AiNext)

----------------------------------------------------------------------------
(* The scroll loop of fetch_with_playwright                                *)

\* the height, in pixels, at which the lazy loading of a page of the model
\* stops
MaxHeight == 30

\* the pages: window.innerHeight, document.body.scrollHeight after the load,
\* and the pixels the document grows by after each scroll, up to MaxHeight
ScrollPages ==
    [viewport : {0, 1, 2, 10}, height : {0, 9, 20}, grow : {0, 1, 9, 12}]

Min(a, b) == IF a <= b THEN a ELSE b

ScrollInit ==
    /\ robustOff
    /\ NormOff
    /\ KeywordOff
    /\ ProductOff
    /\ AiOff
    /\ LinkedinOff
    /\ SitemapOff
    /\ sc_pc = "goto"
    /\ sc_page \in ScrollPages
    /\ viewport_h = 0
    /\ total_h = 0
    /\ scrolled = 0

\* the two page.evaluate calls before the loop
ScrollMeasure ==
    /\ sc_pc = "goto"
    /\ viewport_h' = sc_page.viewport
    /\ total_h' = sc_page.height
    /\ sc_pc' = "scroll"
    /\ UNCHANGED <<notScroll, sc_page, scrolled>>

\* int(viewport_h * 0.9)
ScrollAmount(v) == (v * 9) \div 10

\* "while scrolled < total_h": the scroll position moves on and the
\* window is scrolled to it
ScrollStep ==
    /\ sc_pc = "scroll"
    /\ scrolled < total_h
    /\ scrolled' = scrolled + ScrollAmount(viewport_h)
    /\ sc_pc' = "sleep"
    /\ UNCHANGED <<notScroll, sc_page, viewport_h, total_h>>

\* after the pause the height of the document is measured again
ScrollRemeasure ==
    /\ sc_pc = "sleep"
    /\ total_h' = Min(MaxHeight, total_h + sc_page.grow)
    /\ sc_pc' = "scroll"
    /\ UNCHANGED <<notScroll, sc_page, viewport_h, scrolled>>

\* the loop ends: scrolled >= total_h
ScrollExit ==
    /\ sc_pc = "scroll"
    /\ scrolled >= total_h
    /\ sc_pc' = "hover"
    /\ UNCHANGED <<notScroll, sc_page, viewport_h, total_h, scrolled>>

\* a page.evaluate raises: the except clause around the loop passes
ScrollRaises ==
    /\ sc_pc \in {"goto", "sleep"}
    /\ sc_pc' = "hover"
    /\ UNCHANGED <<notScroll, sc_page, viewport_h, total_h, scrolled>>

ScrollNext ==
    ScrollMeasure \/ ScrollStep \/ ScrollRemeasure \/ ScrollExit \/ ScrollRaises

\* the event loop runs the coroutine as long as it can go on; nothing makes
\* page.evaluate raise
ScrollSpec ==
    /\ ScrollInit
    /\ [][ScrollNext]_vars
    /\ WF_vars(ScrollMeasure) /\ WF_vars(ScrollStep)
    /\ WF_vars(ScrollRemeasure) /\ WF_vars(ScrollExit)

----------------------------------------------------------------------------
(* crawl_linkedin_by_company of routers/crawler.py and the scoring of      *)
(* posts; scores are in tenths, 5 is 0.5                                   *)

\* the most items of one run, and the most posts of the scraper
MaxPosts == 2

\* what chat.completions.create does for a sentiment prompt: it raises,
\* answers text that is not JSON, or answers a JSON object
SentimentReplies ==
    { [kind |-> "error", label |-> "", score |-> 0],
      [kind |-> "text", label |-> "", score |-> 0],
      [kind |-> "json", label |-> "positive", score |-> 9],
      [kind |-> "json", label |-> "mixed", score |-> 7],
      [kind |-> "json", label |-> "negative", score |-> 15] }

\* the same for an alert prompt
AlertReplies ==
    { [kind |-> "error", message |-> "", severity |-> ""],
      [kind |-> "text", message |-> "", severity |-> ""],
      [kind |-> "json", message |-> "", severity |-> "low"],
      [kind |-> "json", message |-> "Competitor launched a product",
       severity |-> "high"] }

\* analyze_post_sentiment of routers/crawler.py
analyze_post_sentiment(reply) ==
    IF reply.kind = "json"
    THEN [label |-> reply.label, score |-> reply.score]
    ELSE [label |-> "neutral", score |-> 5]

\* SentimentResponseModel.model_validate does not raise: label is any str,
\* score is within ge=0.0, le=1.0
SentimentResponseModel(obj) == obj.score >= 0 /\ obj.score <= 10

\* analyze_post_sentiment of linkedin_crawler.py
lc_analyze_post_sentiment(reply) ==
    IF reply.kind # "json"
    THEN [label |-> "neutral", score |-> 0]
    ELSE LET parsed == [label |-> reply.label, score |-> reply.score]
             coerced == [label |-> parsed.label, score |-> parsed.score]
         IN  IF SentimentResponseModel(parsed) THEN parsed
             ELSE IF SentimentResponseModel(coerced) THEN coerced
             ELSE [label |-> "neutral", score |-> 0]

\* analyze_post_alert of routers/crawler.py
analyze_post_alert(reply) ==
    IF reply.kind = "json"
    THEN [message |-> reply.message, severity |-> reply.severity]
    ELSE IF reply.kind = "text"
    THEN [message |-> "AI response was not valid JSON.", severity |-> "low"]
    ELSE [message |-> "AI analysis failed.", severity |-> "low"]

\* the uid of an item; "" is an item without one
LiUids == {"", "old", "u1", "u2"}

PostUids == {p.uid : p \in db_posts}

\* db.query(SocialMediaPost).filter(SocialMediaPost.uid == uid).first()
existing_post_none(uid) == FALSE
existing_post(uid) == uid \in PostUids

\* the post of an earlier run
StoredPosts == {[uid |-> "old", label |-> "neutral", score |-> 5]}

\* the CrawlerLog row of the run is added and committed
LinkedinInit ==
    /\ robustOff
    /\ NormOff
    /\ KeywordOff
    /\ ProductOff
    /\ AiOff
    /\ ScrollOff
    /\ SitemapOff
    /\ li_pc = "start"
    /\ scraped_items \in UNION {[1..n -> LiUids] : n \in 0..MaxPosts}
    /\ db_posts = StoredPosts
    /\ db_alerts = {}
    /\ sentiment_result = [label |-> "", score |-> 0]
    /\ alert_result = [message |-> "", severity |-> ""]
    /\ alert_failed = {}
    /\ committed = [posts |-> StoredPosts, alerts |-> {}]
    /\ li_log = "in_progress"
    /\ li_http = 0
    /\ lc_results = <<>>

\* "except Exception as e": rollback, the log says failed, and
\* HTTPException(status_code=500) is raised
LiExcept ==
    /\ db_posts' = committed.posts
    /\ db_alerts' = committed.alerts
    /\ li_log' = "failed"
    /\ li_http' = 500

\* the company is looked up, HTTPException(status_code=404) being raised
\* inside the try when there is none; then the actor has run:
\* "if not scraped_items"
LiStart ==
    /\ li_pc = "start"
    /\ \E company \in BOOLEAN :
         IF ~company
         THEN /\ LiExcept
              /\ li_pc' = "not_found"
         ELSE IF scraped_items = <<>>
         THEN /\ li_pc' = "completed_no_posts"
              /\ li_log' = "completed_no_posts"
              /\ li_http' = 200
              /\ UNCHANGED <<db_posts, db_alerts>>
         ELSE /\ li_pc' = "loop"
              /\ UNCHANGED <<db_posts, db_alerts, li_log, li_http>>
    /\ UNCHANGED <<notLinkedin, scraped_items, sentiment_result, alert_result,
                   alert_failed, committed, lc_results>>

\* an item without uid, or whose post exists: continue
LiSkip ==
    /\ li_pc = "loop"
    /\ scraped_items # <<>>
    /\ Head(scraped_items) = "" \/ existing_post(Head(scraped_items))
    /\ scraped_items' = Tail(scraped_items)
    /\ UNCHANGED <<notLinkedin, li_pc, db_posts, db_alerts, sentiment_result,
                   alert_result, alert_failed, committed, li_log, li_http,
                   lc_results>>

\* the two scoring calls for the item
LiAnalyze ==
    /\ li_pc = "loop"
    /\ scraped_items # <<>>
    /\ Head(scraped_items) # ""
    /\ ~existing_post(Head(scraped_items))
    /\ \E sr \in SentimentReplies, ar \in AlertReplies :
          /\ sentiment_result' = analyze_post_sentiment(sr)
          /\ alert_result' = analyze_post_alert(ar)
          /\ alert_failed' = IF ar.kind = "json" THEN alert_failed
                             ELSE alert_failed \cup {Head(scraped_items)}
    /\ li_pc' = "analyzed"
    /\ UNCHANGED <<notLinkedin, scraped_items, db_posts, db_alerts, committed,
                   li_log, li_http, lc_results>>

\* the post is added and flushed; a hashtag of its text that is not in the
\* table yet is added with a db.commit(), which commits the session as it
\* is; then the alert is added
\* "if alert_result and alert_result.get("message")"
LiSave ==
    /\ li_pc = "analyzed"
    /\ LET uid == Head(scraped_items)
       IN  /\ db_posts' = db_posts \cup
                 {[uid |-> uid, label |-> sentiment_result.label,
                   score |-> sentiment_result.score]}
           /\ db_alerts' =
                 IF alert_result.message # ""
                 THEN db_alerts \cup
                         {[post_id |-> uid,
                           alert_message |-> alert_result.message,
                           severity |-> alert_result.severity]}
                 ELSE db_alerts
    /\ \E new_hashtag \in BOOLEAN :
          committed' = IF new_hashtag
                       THEN [posts |-> db_posts', alerts |-> db_alerts]
                       ELSE committed
    /\ scraped_items' = Tail(scraped_items)
    /\ li_pc' = "loop"
    /\ UNCHANGED <<notLinkedin, sentiment_result, alert_result, alert_failed,
                   li_log, li_http, lc_results>>

\* a statement of the loop body raises for the item, as stats.get does for
\* an item whose "stats" is null
LiRaise ==
    /\ li_pc = "analyzed"
    /\ LiExcept
    /\ li_pc' = "failed"
    /\ UNCHANGED <<notLinkedin, scraped_items, sentiment_result, alert_result,
                   alert_failed, committed, lc_results>>

\* the loop is over: commit, the log says completed
LiCommit ==
    /\ li_pc = "loop"
    /\ scraped_items = <<>>
    /\ committed' = [posts |-> db_posts, alerts |-> db_alerts]
    /\ li_log' = "completed"
    /\ li_http' = 200
    /\ li_pc' = "completed"
    /\ UNCHANGED <<notLinkedin, scraped_items, db_posts, db_alerts,
                   sentiment_result, alert_result, alert_failed, lc_results>>

\* one post of the scraper of linkedin_crawler.py is scored
LcPost ==
    /\ li_pc # "off"
    /\ Len(lc_results) < MaxPosts
    /\ \E sr \in SentimentReplies :
          lc_results' = Append(lc_results, lc_analyze_post_sentiment(sr))
    /\ UNCHANGED <<notLinkedin, li_pc, scraped_items, db_posts, db_alerts,
                   sentiment_result, alert_result, alert_failed, committed,
                   li_log, li_http>>

LinkedinNext ==
    LiStart \/ LiSkip \/ LiAnalyze \/ LiSave \/ LiRaise \/ LiCommit \/ LcPost

LinkedinSpec == LinkedinInit /\ [][LinkedinNext]_vars

----------------------------------------------------------------------------
(* The recursion of fetch_sitemap_urls and of parse_sitemap, call by call, *)
(* over sitemap documents that may list each other                         *)

\* the deepest call stack the model follows
MaxDepth == 4

\* what the three sitemap URLs may serve: the index lists its two children,
\* itself, or one child twice; a child is a <urlset>, an index that leads
\* back, or does not load
SitemapCycles ==
    [{"index.xml"} ->
         {SitemapDoc("sitemapindex", <<"a.xml", "b.xml">>),
          SitemapDoc("sitemapindex", <<"index.xml">>),
          SitemapDoc("sitemapindex", <<"a.xml", "a.xml">>)}]
    \X [{"a.xml"} ->
         {SitemapDoc("urlset", <<"p1", "p2">>),
          SitemapDoc("sitemapindex", <<"index.xml">>),
          SitemapDoc("sitemapindex", <<"b.xml">>),
          SitemapDoc("unfetchable", <<>>)}]
    \X [{"b.xml"} ->
         {SitemapDoc("urlset", <<"p3">>),
          SitemapDoc("sitemapindex", <<"a.xml">>),
          SitemapDoc("urlset", <<>>)}]

SxInit(fn) ==
    /\ robustOff
    /\ NormOff
    /\ KeywordOff
    /\ ProductOff
    /\ AiOff
    /\ ScrollOff
    /\ LinkedinOff
    /\ sx_pc = "call"
    /\ sx_fn = fn
    /\ \E w \in SitemapCycles : sx_docs = w[1] @@ w[2] @@ w[3]
    /\ sx_stack = <<>>
    /\ sx_arg = "index.xml"
    /\ sx_ret = <<>>
    /\ sx_seen = {}
    /\ sx_downloads = <<>>

\* "if sitemap_url in seen" of parse_sitemap
SeenNever(u, seen) == FALSE
SeenBefore(u, seen) == u \in seen

\* a call from its entry to its loop over the child sitemaps, or to its
\* return: parse_sitemap returns [] for a URL in seen, both return [] when
\* the document does not load or parse
SxEnter ==
    /\ sx_pc = "call"
    /\ IF sx_fn = "parse_sitemap" /\ SeenBefore(sx_arg, sx_seen)
       THEN /\ sx_ret' = <<>>
            /\ sx_pc' = "ret"
            /\ UNCHANGED <<sx_stack, sx_seen, sx_downloads>>
       ELSE /\ sx_seen' = IF sx_fn = "parse_sitemap"
                          THEN sx_seen \cup {sx_arg} ELSE sx_seen
            /\ sx_downloads' = Append(sx_downloads, sx_arg)
            /\ LET d == sx_docs[sx_arg]
               IN  IF d.kind \in {"unfetchable", "malformed"}
                   THEN /\ sx_ret' = <<>>
                        /\ sx_pc' = "ret"
                        /\ UNCHANGED sx_stack
                   ELSE /\ sx_stack' =
                              Append(sx_stack,
                                     [url |-> sx_arg,
                                      todo |-> IF d.kind = "sitemapindex"
                                               THEN d.locs ELSE <<>>,
                                      urls |-> IF d.kind = "sitemapindex"
                                               THEN <<>> ELSE d.locs])
                        /\ sx_pc' = "loop"
                        /\ UNCHANGED sx_ret
    /\ UNCHANGED <<notSitemap, sx_fn, sx_docs, sx_arg>>

\* the loop over the <sitemap> entries calls the function for the next one
SxCall ==
    /\ sx_pc = "loop"
    /\ sx_stack[Len(sx_stack)].todo # <<>>
    /\ Len(sx_stack) < MaxDepth
    /\ sx_arg' = Head(sx_stack[Len(sx_stack)].todo)
    /\ sx_stack' = [sx_stack EXCEPT ![Len(sx_stack)].todo = Tail(@)]
    /\ sx_pc' = "call"
    /\ UNCHANGED <<notSitemap, sx_fn, sx_docs, sx_ret, sx_seen, sx_downloads>>

\* the loop is over: "return urls", after the any-<loc> fallback of
\* fetch_sitemap_urls
SxReturn ==
    /\ sx_pc = "loop"
    /\ sx_stack[Len(sx_stack)].todo = <<>>
    /\ LET f == sx_stack[Len(sx_stack)]
       IN  sx_ret' = IF sx_fn = "fetch_sitemap_urls" /\ f.urls = <<>>
                     THEN sx_docs[f.url].locs
                     ELSE f.urls
    /\ sx_stack' = SubSeq(sx_stack, 1, Len(sx_stack) - 1)
    /\ sx_pc' = "ret"
    /\ UNCHANGED <<notSitemap, sx_fn, sx_docs, sx_arg, sx_seen, sx_downloads>>

\* the caller goes on: urls.extend(...) of the returned list, or the
\* top-level call has returned
SxExtend ==
    /\ sx_pc = "ret"
    /\ IF sx_stack = <<>>
       THEN /\ sx_pc' = "returned"
            /\ UNCHANGED sx_stack
       ELSE /\ sx_stack' = [sx_stack EXCEPT ![Len(sx_stack)].urls = @ \o sx_ret]
            /\ sx_pc' = "loop"
    /\ UNCHANGED <<notSitemap, sx_fn, sx_docs, sx_arg, sx_ret, sx_seen,
                   sx_downloads>>

SxNext == SxEnter \/ SxCall \/ SxReturn \/ SxExtend

\* fetch_sitemap_urls("index.xml")
FetchSitemapSpec == SxInit("fetch_sitemap_urls") /\ [][SxNext]_vars

\* parse_sitemap("index.xml"); the interpreter runs the call as long as it
\* can go on
ParseSitemapSpec ==
    SxInit("parse_sitemap") /\ [][SxNext]_vars /\ WF_vars(SxNext)

----------------------------------------------------------------------------
(* The two crawlers that wrap RobotFileParser in a Robots class            *)

\* a run of keyword_crawler.py or a run of product_crawler.py
WrappersSpec ==
    (KeywordInit \/ ProductInit) /\ [][KeywordNext \/ ProductNext]_vars

----------------------------------------------------------------------------
(* Properties                                                              *)

RECURSIVE SumOver(_, _)
SumOver(b, S) ==
    IF S = {} THEN 0
    ELSE LET x == CHOOSE y \in S : TRUE IN b[x] + SumOver(b, S \ {x})

\* the number of plain fetches workers issued for URLs with path p
PathFetches(p) ==
    SumOver(plain_fetched, {u \in DOMAIN plain_fetched : u.path = p})

ResultUrls == {results[i].url : i \in DOMAIN results}

\* every URL a fetch was issued for, by a worker or while seeding
FetchedUrls == DOMAIN plain_fetched \cup DOMAIN render_fetched \cup seed_fetched

RenderStates == {"new_page", "goto", "content", "close"}

Drained == q = <<>> \/ Cardinality(visited) >= cfg.max_pages

PathEndsWithSkipExt(u) ==
    u.path # <<>> /\ Lower(u.path[Len(u.path)]) \in EXTENSION_SKIP

\* C1: each normalized URL is fetched at most once by the workers (plain
\* and rendered) and has at most one PageResult, for every concurrency and
\* however many pages link to it.
C1_AtMostOnce ==
    /\ \A u \in DOMAIN plain_fetched : plain_fetched[u] <= 1
    /\ \A u \in DOMAIN render_fetched : render_fetched[u] <= 1
    /\ \A i, j \in DOMAIN results : results[i].url = results[j].url => i = j

\* two workers were in flight, /page was linked from the start page and from
\* /b, both were processed, and /page was fetched once
C1_Witness ==
    /\ cfg.concurrency = 2
    /\ U_other \in visited
    /\ {U_root, U_b, U_page} \subseteq ResultUrls
    /\ Count(plain_fetched, U_page) = 1

\* C2: len(visited) <= max_pages in every reachable state.
C2_BudgetRespected == Cardinality(visited) <= cfg.max_pages

\* C3: every run that is not interrupted reaches the state where all workers
\* have exited, and whenever all workers have exited the frontier is empty
\* or len(visited) >= max_pages.
C3_WorkersExitDrained ==
    /\ <>(phase = "interrupted" \/ AllWorkersDone)
    /\ [](AllWorkersDone => Drained)

\* both workers have exited, one of them while the other was still crawling,
\* and the frontier is empty with budget left
C3_Witness ==
    /\ cfg.concurrency = 2
    /\ AllWorkersDone
    /\ q = <<>>
    /\ Cardinality(visited) < cfg.max_pages
    /\ Len(results) >= 2

\* C4: with ignore_robots false and a loaded policy, no fetch is issued for
\* a URL the policy disallows, seeding from sitemaps included.
C4_RobotsCompliance ==
    (rp # NoPolicy /\ ~cfg.ignore_robots) =>
        \A u \in FetchedUrls : can_fetch(rp, u)

\* C5: no fetch is issued for a URL whose host is not the seed host, and no
\* page of another host is extracted.
C5_OffDomainExcluded ==
    \A u \in FetchedUrls \cup ResultUrls : u.netloc = base_host

\* an off-domain URL of the sitemap went through the frontier and was
\* skipped, in a run that fetched and extracted pages
C5_Witness ==
    /\ phase = "written"
    /\ U_other \in discovered /\ U_other \in visited
    /\ results # <<>>

\* C6: no URL whose path ends with an extension of EXTENSION_SKIP is pushed
\* to the frontier (the seeds of the model carry no such extension).
C6_ExtensionDenylist == \A u \in discovered : ~PathEndsWithSkipExt(u)

\* C7: /page?utm_campaign=x on the start page and /page on /b normalize to
\* the same key; /page is never fetched twice, and it is fetched exactly once
\* in a run that processed both pages and emptied the frontier.
C7_TrackingDuplicateFetchedOnce ==
    /\ normalize_url(Rel(P_page, Q_utm), U_root)
           = normalize_url(Rel(P_page, <<>>), U_b)
    /\ PathFetches(P_page) <= 1
    /\ (phase = "written" /\ q = <<>> /\ {U_root, U_b} \subseteq ResultUrls)
           => PathFetches(P_page) = 1

\* a finished run of two workers that processed both linking pages
C7_Witness ==
    /\ phase = "written"
    /\ q = <<>>
    /\ cfg.concurrency = 2
    /\ {U_root, U_b} \subseteq ResultUrls
    /\ Count(plain_fetched, U_page) = 1

\* C8: at most one worker is inside fetch_with_playwright at any time.
C8_OneRenderInFlight ==
    Cardinality({w \in Workers : pc[w] \in RenderStates}) <= 1

\* one worker renders while another waits for render_lock
C8_Witness ==
    \E w, v \in Workers : pc[w] \in RenderStates /\ pc[v] = "lock"

\* C9: every page opened by fetch_with_playwright is closed when the call
\* has returned, on each exit path, and the call returns None on the timeout
\* and exception paths.
C9_PageClosedOnReturn ==
    /\ phase # "interrupted" =>
           pages_open =
               Cardinality({w \in Workers : pc[w] \in {"goto", "content", "close"}})
    /\ \A w \in Workers :
           (pc[w] = "sleep" /\ pw_path[w] \in {"timeout", "error"})
               => pw_result[w] = NoHtml

\* one render call has returned by the timeout path and one by the
\* exception path, and no page is open
C9_Witness ==
    /\ pages_open = 0
    /\ \E w, v \in Workers :
           /\ pc[w] = "sleep" /\ pw_path[w] = "timeout"
           /\ pc[v] = "sleep" /\ pw_path[v] = "error"

\* C10: once the shared browser was started it is closed when the run has
\* ended, by completion or by interruption.
C10_BrowserClosedAtEnd ==
    (phase \in {"written", "interrupted"} /\ shared_browser # "none")
        => shared_browser = "closed"

\* the step appends one PageResult, for the URL worker w was processing,
\* with content c
Recorded(w, c) ==
    /\ Len(results') = Len(results) + 1
    /\ SubSeq(results', 1, Len(results)) = results
    /\ results'[Len(results')].url = cur[w]
    /\ results'[Len(results')].content = c

\* C16: with rendering enabled, a plain fetch that returns no body or a
\* short body leads to the render call for that URL (at once, or after the
\* wait for render_lock); when the render call returns content it is the
\* content recorded, and when it returns none the plain body, if any, is
\* recorded.
C16_RenderFallback ==
    [][\A w \in Workers :
         /\ (/\ use_pw /\ phase' = "crawl"
             /\ pc[w] = "fetch" /\ pc'[w] # "fetch"
             /\ html'[w] \in {NoHtml, "short"})
                => /\ pc'[w] \in {"new_page", "lock"}
                   /\ cur'[w] = cur[w]
         /\ (pc[w] \in {"fetch", "lock"} /\ pc'[w] = "new_page")
                => Count(render_fetched', cur[w])
                       = Count(render_fetched, cur[w]) + 1
         /\ (pc[w] = "close" /\ pc'[w] = "sleep")
                => IF pw_result'[w] # NoHtml
                   THEN Recorded(w, pw_result'[w])
                   ELSE IF html[w] # NoHtml THEN Recorded(w, html[w])
                        ELSE results' = results
         /\ (pc[w] = "new_page" /\ pc'[w] = "sleep")
                => IF html[w] # NoHtml THEN Recorded(w, html[w])
                   ELSE results' = results]_vars

\* one page was recorded with its rendered content and another with its short
\* plain body after the render call had returned none
C16_Witness ==
    /\ use_pw
    /\ \E i, j \in DOMAIN results :
           /\ results[i].content = "rendered"
           /\ results[j].content = "short"
           /\ results[j].rendered_with_playwright

\* rendering was requested and Playwright is missing or failed to start
PlainOnlyFallback ==
    phase \in {"crawl", "written"} /\ ~cfg.no_playwright /\ ~use_pw

\* C17: when rendering is requested and Playwright cannot be started, the
\* run goes on without rendering: no render call is ever issued, no worker
\* enters the renderer, and the run ends with the output document written
\* (unless the user interrupts it).
C17_PlainOnlyFallback ==
    /\ [](PlainOnlyFallback =>
              /\ render_fetched = NoCounts
              /\ \A w \in Workers : pc[w] \notin RenderStates \cup {"lock"}
              /\ pages_open = 0)
    /\ (PlainOnlyFallback ~>
            ((phase = "written" /\ output # NoOutput) \/ phase = "interrupted"))

\* a finished fallback run that recorded a page with a short plain body, which
\* would have been rendered
C17_Witness ==
    /\ PlainOnlyFallback
    /\ phase = "written"
    /\ output.results = results
    /\ \E i \in DOMAIN results :
           /\ results[i].content = "short"
           /\ ~results[i].rendered_with_playwright

\* worker w finishes a URL for which neither the plain fetch nor the render
\* call gave content
NoContentStep(w) ==
    /\ pc[w] \in {"fetch", "new_page", "close"}
    /\ cur[w] # None /\ cur'[w] = None
    /\ phase' = "crawl"
    /\ html'[w] = NoHtml
    /\ pw_result'[w] \in {"no call", NoHtml}

\* C18: a URL without content is added to visited, gets no PageResult and
\* enqueues nothing; the worker is at its politeness sleep, from where it
\* goes to the next frontier URL, and the run stays in the crawl.
C18_NoContentContinues ==
    [][\A w \in Workers :
         NoContentStep(w) =>
             /\ cur[w] \in visited'
             /\ results' = results
             /\ q' = q
             /\ discovered' = discovered
             /\ pc'[w] = "sleep"]_vars

\* a single worker got no content for the start page, went on, and recorded
\* /page afterwards
C18_Witness ==
    /\ cfg.concurrency = 1
    /\ phase = "written"
    /\ U_root \in DOMAIN plain_fetched
    /\ U_root \in visited /\ U_root \notin ResultUrls
    /\ U_page \in ResultUrls

\* the basic crawl: the start page, which links to /page?utm_campaign=x, to
\* /b/ and off-domain, was extracted from its plain HTML in a finished run
\* that had budget for three pages and took no seeds from sitemaps
BasicCrawl ==
    /\ cfg.start_url = U_root
    /\ ~cfg.use_sitemaps
    /\ cfg.max_pages >= 3
    /\ phase = "written"
    /\ \E i \in DOMAIN results :
           /\ results[i].url = U_root
           /\ results[i].links = {U_page, U_b, U_other}

PairsOf(text) == parse_qsl(urlparse(text).query)

\* C13: normalize_url applied to its own result returns that result, for
\* both normalize_url functions.
C13_Idempotent ==
    norm_pc = "twice" =>
        /\ norm_out # None => norm_again = norm_out
        /\ ai_again = ai_out

\* C14: a URL with path p + '/' and the URL with path p have the same
\* normalization, for every p other than '/', and the root URL keeps its
\* path '/' and normalizes to itself.
C14_TrailingSlash ==
    norm_pc \in {"once", "twice"} =>
        /\ norm_in.path # <<"/">> =>
               normalize_url([norm_in EXCEPT !.path = @ \o <<"/">>], None)
                   = norm_out
        /\ (norm_in.path = <<"/">> /\ norm_out # None) =>
               norm_out.path = <<"/">>
        /\ norm_in = Abs("h", <<"/">>, <<>>) => norm_out = norm_in

\* /a/b/ with a query was normalized to /a/b
C14_Witness ==
    /\ norm_pc = "once"
    /\ norm_in.path = <<"/", "a", "/", "b", "/">>
    /\ norm_in.query # <<>>
    /\ norm_out # None
    /\ norm_out.path = <<"/", "a", "/", "b">>

\* C15: the pairs of the result's query string are the pairs of the given
\* query string whose key is no tracking key, in their order and with their
\* duplicates, and the result has no '?' when none is left.
C15_TrackingPairsRemoved ==
    (norm_pc \in {"once", "twice"} /\ norm_out # None) =>
        LET kept == SelectSeq(PairsOf(UrlText(norm_in)),
                              LAMBDA kv : ~IsTracking(kv[1]))
        IN  /\ PairsOf(UrlString(norm_out)) = kept
            /\ kept = <<>> => IndexOf(UrlString(norm_out), "?") = 0

\* C12: the pause run applies after it has submitted a request is
\* max(configured delay, Crawl-delay) when robots.txt declares a Crawl-delay
\* for '*' or for the crawler.
C12_PauseIsMaxDelay ==
    (kw_pc # "off" /\ kw_pc # "new" /\ robots.crawl_delay # {}
        /\ kw_pause # NoPause)
        => \A d \in robots.crawl_delay :
               kw_pause.num = Max(kw_cfg.delay, d) * kw_pause.den

\* C11: when rp.read() raised, the Robots wrappers of keyword_crawler.py and
\* of product_crawler.py allow every URL.
C11_ReadFailurePermitsAll ==
    /\ (kw_pc \notin {"off", "new"} /\ robots.read = "raised")
           => \A u \in KwUrls : kw_can_fetch(robots, u)
    /\ (pr_pc \in {"launch", "workers", "written"} /\ pr_robots.read = "raised")
           => \A u \in SeqSet(all_urls) : ~pr_blocked(pr_robots, u)

Occurrences(sq, x) == Cardinality({i \in DOMAIN sq : sq[i] = x})

\* the sitemap index is given and each of its two children is a <urlset>
\* of three <url> entries
SitemapExpansion ==
    /\ pr_pc \in {"launch", "returned"}
    /\ pr_cfg.sitemaps = <<SM_index>>
    /\ \A c \in {SM_1, SM_2} :
           sitemap_docs[c].kind = "urlset" /\ Len(sitemap_docs[c].locs) = Len(FirstChild)

SixUrls ==
    SitemapExpansion
        => /\ all_urls = sitemap_docs[SM_1].locs \o sitemap_docs[SM_2].locs
           /\ Len(all_urls) = Len(FirstChild) + Len(FirstChild)

\* C19 as stated: resolution of the index yields the six URLs of the two
\* children, and every distinct URL of the sitemaps is in the frontier exactly
\* once when crawl_from_sitemaps has seeded it.
C19_EachDistinctUrlSeededOnce ==
    /\ SixUrls
    /\ pr_pc = "launch" => \A u \in SeqSet(all_urls) : Occurrences(pr_q, u) = 1

\* C19: resolution of the index yields the six URLs of the two children, and
\* crawl_from_sitemaps seeds the frontier with every distinct URL on the host
\* of the first given sitemap exactly once, and with no other URL.
C19_SameHostUrlSeededOnce ==
    /\ SixUrls
    /\ pr_pc = "launch"
           => /\ \A u \in SeqSet(all_urls) :
                     Occurrences(pr_q, u) = IF u.netloc = pr_base_host THEN 1 ELSE 0
              /\ SeqSet(pr_q) \subseteq SeqSet(all_urls)

\* the two children share a URL: six URLs are resolved and five are seeded
C19_Witness ==
    /\ SitemapExpansion
    /\ pr_pc = "launch"
    /\ Occurrences(all_urls, PrPage("b")) > 1
    /\ Len(all_urls) = Len(FirstChild) + Len(FirstChild)
    /\ Len(pr_q) = Cardinality(SeqSet(all_urls))
    /\ Len(pr_q) < Len(all_urls)

\* C23: when KeywordCrawler.run has returned, to_visit is empty or the page
\* budget is used up.
C23_RunEndsWithFrontierEmptyOrBudgetUsed ==
    kw_pc = "saved"
        => to_visit = <<>> \/ Cardinality(kw_visited) >= kw_cfg.max_pages

\* C24: to_visit and visited change only under self.lock, so the test and
\* append of a page task never run between the scheduler's removal of a URL
\* from to_visit and its insertion into visited: no task appends the URL the
\* scheduler holds.
C24_MutationsUnderLock ==
    [][Len(to_visit') > Len(to_visit)
           => to_visit'[Len(to_visit')] # kw_url]_vars

\* C25: in robust_crawl a URL that enters the frontier was not discovered
\* before (so it was never queued, dequeued or visited) and enters it once;
\* the frontier holds no URL twice and every visited URL was discovered.
C25_PushedOnce ==
    [][/\ \A i \in DOMAIN q' :
              Occurrences(q', q'[i]) > Occurrences(q, q'[i])
                  => /\ q'[i] \notin discovered \cup visited
                     /\ Occurrences(q', q'[i]) = 1
       /\ \A i \in DOMAIN q : Occurrences(q, q[i]) = 1 /\ q[i] \in discovered
       /\ visited \subseteq discovered]_vars

\* two pages that link to /page have been processed and /page is queued once
C25_Witness ==
    /\ \E i, j \in DOMAIN results :
           /\ i # j
           /\ U_page \in results[i].links \cap results[j].links
    /\ Occurrences(q, U_page) = 1

\* C27: the frontier of robust_crawl is first-in first-out: a step removes
\* URLs only from its front, the URL a worker takes is the last one removed,
\* the ones removed before it are skipped, and new URLs go behind the rest
\* (an interrupted run drops its frontier).
C27_Fifo ==
    [][phase' = "interrupted" \/ \E k \in 0..Len(q) :
           /\ IsPrefix(SubSeq(q, k + 1, Len(q)), q')
           /\ \A w \in Workers :
                  (cur'[w] # cur[w] /\ cur'[w] # None)
                      => k >= 1 /\ q[k] = cur'[w]
           /\ \A j \in 1..k :
                  q[j] \in visited' \/ (\E w \in Workers : cur'[w] = q[j] /\ j = k)
           /\ (k > 0 => Len(q') = Len(q) - k)]_vars

\* a worker fetches a URL that a page pushed while another URL, pushed
\* after it by the same page, still waits behind it
C27_Witness ==
    \E w \in Workers :
        /\ pc[w] = "fetch"
        /\ results # <<>>
        /\ {cur[w]} \cup {q[i] : i \in DOMAIN q} \subseteq results[1].links
        /\ q # <<>>

InFlight(w) == pc[w] \in {"fetch", "lock"} \cup RenderStates

\* C28: a worker of robust_crawl issues a fetch only at its start or from its
\* politeness sleep; a fetch in flight has not marked its URL visited nor
\* recorded it; and when the fetch is over, with or without content, one step
\* marks the URL visited, records and enqueues behind the frontier, and
\* leaves the worker in its sleep (unless the run is interrupted and the
\* worker cancelled).
C28_SleepBetweenFetches ==
    [][\A w \in Workers :
           /\ (pc'[w] = "fetch" /\ pc[w] # "fetch") => pc[w] \in {"ready", "sleep"}
           /\ pc'[w] = "ready" => pc[w] \in {"absent", "ready"}
           /\ InFlight(w)
                  => /\ cur[w] \notin visited
                     /\ \A i \in DOMAIN results : results[i].url # cur[w]
           /\ (InFlight(w) /\ pc'[w] \notin {"fetch", "lock", "cancelled"}
                                           \cup RenderStates)
                  => /\ pc'[w] = "sleep"
                     /\ cur[w] \in visited'
                     /\ IsPrefix(q, q')
                     /\ \/ results' = results /\ q' = q
                        \/ /\ Len(results') = Len(results) + 1
                           /\ results'[Len(results')].url = cur[w]]_vars

\* a worker sleeps after a fetch that returned no content, and the run has
\* fetched another URL as well
C28_Witness ==
    \E w \in Workers :
        /\ pc[w] = "sleep"
        /\ html[w] = NoHtml
        /\ Cardinality(DOMAIN plain_fetched) >= 2

\* C26: a dequeued URL is skipped as off-domain (marked visited without a
\* fetch, and not because robots.txt blocks it) if and only if its host
\* differs from the seed's host, letter case aside; so the normalized seed is
\* not skipped as off-domain.
C26_OffDomainIgnoresCase ==
    \A u \in visited :
        (u \notin DOMAIN plain_fetched /\ ~RobotsBlocked(u))
            <=> Lower(u.netloc) # Lower(base_host)

\* C30: in crawl of ai_crawler.py an exception raised while the links of a
\* page are extracted ends neither the worker nor the run.
C30_ExtractionErrorSkipsPage ==
    ai_pc # "raised" /\ \A w \in Workers : ai_wpc[w] # "raised"

\* C29: the scroll loop of fetch_with_playwright ends for every page.
C29_ScrollLoopEnds == <>(sc_pc = "hover")

\* C21: in crawl_linkedin_by_company a post whose alert-scoring call failed
\* is still saved, and no Alert row is created for it.
C21_FailedAlertSavesPostWithoutAlert ==
    /\ li_pc # "failed"
          => \A u \in alert_failed :
                 u \in PostUids
                     \/ (li_pc = "analyzed" /\ Head(scraped_items) = u)
    /\ \A a \in db_alerts : a.post_id \notin alert_failed

SentimentRecord(r) ==
    r.label \in {"positive", "neutral", "negative"} /\ r.score \in 0..10

\* C22: every record analyze_post_sentiment returns, in the router and in
\* the scraper, has label positive, neutral or negative and score in [0, 1].
C22_SentimentRecordWellFormed ==
    /\ li_pc = "analyzed" => SentimentRecord(sentiment_result)
    /\ \A i \in 1..Len(lc_results) : SentimentRecord(lc_results[i])

\* C31: the location of a child sitemap is never among the page URLs that
\* fetch_sitemap_urls returns, also when every child is empty or fails.
C31_ChildSitemapNeverPageUrl ==
    pr_pc # "sitemaps"
        => \A i \in DOMAIN all_urls : all_urls[i] \notin {SM_index, SM_1, SM_2}

AiInFlight == {w \in Workers : ai_wpc[w] \in {"fetch", "render"}}

\* in every state of crawl at most one URL is in flight
AiOneInFlight == Cardinality(AiInFlight) <= 1

\* C32: crawl of ai_crawler.py with concurrency >= 2, on a site whose seed
\* page links to two pages of the domain and is fetched, comes to a state in
\* which two URLs are in flight at the same time.
C32_TwoUrlsInFlight ==
    (ai_cfg.concurrency >= 2 /\ ai_cfg.max_pages >= 3)
        => <>(\/ Cardinality(AiInFlight) >= 2
              \/ /\ Abs("a", <<"/">>, <<>>) \in ai_visited
                 /\ ai_results = <<>>)

\* the URLs in flight: dequeued and not yet added to visited
InFlightUrls == {cur[w] : w \in {v \in Workers : InFlight(v)}}

\* C33: in robust_crawl the discovered set is the disjoint union of the URLs
\* of the frontier, the URLs in flight and the visited set; visited_count is
\* at most discovered_count in the output document.
C33_DiscoveredIsDisjointUnion ==
    /\ discovered = SeqSet(q) \cup InFlightUrls \cup visited
    /\ SeqSet(q) \cap InFlightUrls = {}
    /\ SeqSet(q) \cap visited = {}
    /\ InFlightUrls \cap visited = {}
    /\ Cardinality(SeqSet(q)) = Len(q)
    /\ Cardinality(InFlightUrls) = Cardinality({v \in Workers : InFlight(v)})
    /\ output # NoOutput => output.visited_count <= output.discovered_count

\* two URLs are in the frontier, one is in flight and one is visited
C33_Witness ==
    /\ phase = "crawl"
    /\ Len(q) >= 2
    /\ InFlightUrls # {}
    /\ visited # {}

\* C34: in KeywordCrawler len(visited) + len(to_visit) <= max_pages in every
\* state, for any interleaving of the loop of run with the page tasks.
C34_FrontierPlusVisitedWithinBudget ==
    kw_pc \notin {"off", "new"}
        => Cardinality(kw_visited) + Len(to_visit) <= kw_cfg.max_pages

\* C35: in KeywordCrawler no URL of to_visit is in visited, nor differs from
\* a visited URL only by a trailing slash.
C35_FrontierDisjointFromVisited ==
    \A i \in DOMAIN to_visit :
        to_visit[i] \notin kw_visited /\ rstrip_url(to_visit[i]) \notin kw_visited

\* a URL is not appended to to_visit when visited holds it without its
\* trailing slash
KwAppendedNotVisited ==
    [][Len(to_visit') > Len(to_visit)
          => rstrip_url(to_visit'[Len(to_visit')]) \notin kw_visited]_vars

\* C36: the expansion of a sitemap index by fetch_sitemap_urls terminates,
\* also for an index that lists itself or a cycle of indexes: no sitemap is
\* expanded within its own expansion, which is what an expansion that ends
\* over a fixed set of documents amounts to.
C36_NoSitemapWithinItsOwnExpansion ==
    \A i, j \in DOMAIN sx_stack : sx_stack[i].url = sx_stack[j].url => i = j

\* C37: parse_sitemap terminates, also over indexes that list themselves or
\* each other, and one top-level call downloads each sitemap URL at most once.
C37_ParseSitemapEndsEachUrlOnce ==
    /\ [](\A i, j \in DOMAIN sx_downloads :
              sx_downloads[i] = sx_downloads[j] => i = j)
    /\ <>(sx_pc = "returned")

\* the index leads to a.xml, a.xml leads back to the index, and the call
\* has returned
C37_Witness ==
    /\ sx_fn = "parse_sitemap"
    /\ sx_pc = "returned"
    /\ sx_docs["a.xml"].locs = <<"index.xml">>
    /\ Len(sx_downloads) >= 2

\* C38: crawl_linkedin_by_company never stores two SocialMediaPost rows
\* with the same uid, in the session or committed.
C38_OnePostPerUid ==
    \A rows \in {db_posts, committed.posts} :
        \A p1, p2 \in rows : p1.uid = p2.uid => p1 = p2

\* the next item of the batch has the uid of a post that this run has saved,
\* or of the post of the earlier run while this run has saved another
C38_Witness ==
    /\ li_pc = "loop"
    /\ scraped_items # <<>>
    /\ Head(scraped_items) \in PostUids
    /\ Cardinality(db_posts) = 2

\* C39: when crawl_linkedin_by_company fails within a batch, no post and no
\* alert of the run is committed, and the CrawlerLog says failed.
C39_FailedRunLeavesNothing ==
    li_pc = "failed"
        => /\ committed.posts = StoredPosts
           /\ committed.alerts = {}
           /\ li_log = "failed"

\* C40: when the company does not exist, the answer is HTTP 404.
C40_MissingCompanyAnswers404 == li_pc = "not_found" => li_http = 404

====
